---------------------------- MODULE Spec2Model ----------------------------
(***************************************************************************)
(* A model of the samsung-galaxybook platform driver                       *)
(* (src/samsung-galaxybook.c, the revision that starts at line 3190):      *)
(* the SAWB transaction frame, the ACPI transaction executor               *)
(* galaxybook_acpi_method, the device control modules built on it and the  *)
(* performance-mode negotiation done at attach.                            *)
(*                                                                         *)
(* Bytes are naturals 0..255.  A frame is a record of the bytes of         *)
(* struct sawb that the driver reads or writes: byte 4 (rflg), byte 5      *)
(* (gunm, which is also caid[0] in the performance-mode layout), bytes     *)
(* 6..8 (guds[0..2], also caid[1..3]), byte 21 (fncn), byte 22 (subn) and  *)
(* bytes 23..32 (iob0..iob9, also iob_values[0..9]).                       *)
(***************************************************************************)
EXTENDS Integers, Sequences, FiniteSets, TLC

VARIABLES fw, gb, probe, last, prev

vars == <<fw, gb, probe, last, prev>>

(***************************************************************************)
(* Program constants                                                       *)
(***************************************************************************)
SAWB_LEN_SETTINGS == 21
SAWB_LEN_PERFORMANCE_MODE == 256
SAFN == 22595
SASB_KBD_BACKLIGHT == 120
SASB_POWER_MANAGEMENT == 122
SASB_USB_CHARGE_GET == 103
SASB_USB_CHARGE_SET == 104
SASB_NOTIFICATIONS == 134
SASB_ALLOW_RECORDING == 138
SASB_PERFORMANCE_MODE == 145
SAWB_RFLG_POS == 4
SAWB_GUNM_POS == 5
RFLG_SUCCESS == 170
GUNM_FAIL == 255
GUNM_FEATURE_ENABLE == 187
GUNM_FEATURE_ENABLE_SUCCESS == 221
GUDS_FEATURE_ENABLE == 170
GUDS_FEATURE_ENABLE_SUCCESS == 204
GUNM_GET == 129
GUNM_SET == 130
GUNM_POWER_MANAGEMENT == 130
GUNM_USB_CHARGE_GET == 128
GUNM_USB_CHARGE_ON == 129
GUNM_USB_CHARGE_OFF == 128
GUDS_START_ON_LID_OPEN == 163
GUDS_START_ON_LID_OPEN_GET == 129
GUDS_START_ON_LID_OPEN_SET == 128
GUDS_BATTERY_CHARGE_CONTROL == 233
GUDS_BATTERY_CHARGE_CONTROL_GET == 145
GUDS_BATTERY_CHARGE_CONTROL_SET == 144
FNCN_PERFORMANCE_MODE == 81
SUBN_PERFORMANCE_MODE_LIST == 1
SUBN_PERFORMANCE_MODE_GET == 2
SUBN_PERFORMANCE_MODE_SET == 3
PERFORMANCE_MODE_ULTRA == 22
PERFORMANCE_MODE_PERFORMANCE == 21
PERFORMANCE_MODE_SILENT == 11
PERFORMANCE_MODE_QUIET == 10
PERFORMANCE_MODE_OPTIMIZED == 2
PERFORMANCE_MODE_PERFORMANCE_LEGACY == 1
PERFORMANCE_MODE_OPTIMIZED_LEGACY == 0
PERFORMANCE_MODE_UNKNOWN == 255
KBD_BACKLIGHT_MAX_BRIGHTNESS == 3
MAX_FAN_COUNT == 5
GUNM_ACPI_NOTIFY_ENABLE == 128
GUDS_ACPI_NOTIFY_ENABLE == 2
ACPI_NOTIFY_BATTERY_STATE_CHANGED == 97
ACPI_NOTIFY_HOTKEY_PERFORMANCE_MODE == 112
I8042_STR_AUXDATA == 32
I8042_PREFIX_EXTENDED == 224
GB_KEY_KBD_BACKLIGHT_KEYDOWN == 44
GB_KEY_KBD_BACKLIGHT_KEYUP == 172
GB_KEY_ALLOW_RECORDING_KEYDOWN == 31
GB_KEY_ALLOW_RECORDING_KEYUP == 159
ACPI_FAN_SPEED_LIST == "FANT"
ACPI_FAN_SPEED_VALUE == "\\_SB.PC00.LPCB.H_EC.FANS"
IGNORE_PERFORMANCE_MODE_MAPPING == -1

\* enum platform_profile_option of <linux/platform_profile.h>
PLATFORM_PROFILE_LOW_POWER == 0
PLATFORM_PROFILE_COOL == 1
PLATFORM_PROFILE_QUIET == 2
PLATFORM_PROFILE_BALANCED == 3
PLATFORM_PROFILE_BALANCED_PERFORMANCE == 4
PLATFORM_PROFILE_PERFORMANCE == 5
PLATFORM_PROFILE_LAST == 6
DEFAULT_PLATFORM_PROFILE == PLATFORM_PROFILE_BALANCED

\* errno values, returned negated
EIO == 5
ENOMEM == 12
ENODEV == 19
ENXIO == 6
EINVAL == 22
ERANGE == 34

\* acpi_status values of the firmware call primitive
AE_OK == 0
AE_ERROR == 1
AE_NOT_FOUND == 5

\* the ACPI methods the executor is called with
ACPI_METHOD_SETTINGS == "CSFI"
ACPI_METHOD_PERFORMANCE_MODE == "CSXI"

\* export_guid(PERFORMANCE_MODE_GUID): caid[0] and caid[1..3], the bytes of
\* the GUID that share their offsets with gunm and guds[0..2]
CAID0 == 141
CAID123 == <<2, 70, 130>>

(***************************************************************************)
(* struct sawb                                                             *)
(***************************************************************************)
\* struct sawb buf = {0};  beyond stands for the bytes that follow iob9
\* (offsets 33..255 of the frame), taken to hold one value
sawb_zero ==
  [safn |-> 0, sasb |-> 0, rflg |-> 0, gunm |-> 0, guds |-> <<0, 0, 0>>,
   fncn |-> 0, subn |-> 0, iob |-> [i \in 0..9 |-> 0], beyond |-> 0]

\* a settings-layout request: safn, sasb, gunm and guds[0..2]
settings_request(sasb, gunm, guds) ==
  [sawb_zero EXCEPT !.safn = SAFN, !.sasb = sasb, !.gunm = gunm, !.guds = guds]

\* a performance-mode-layout request: safn, sasb, caid, fncn, subn and iob0
performance_request(subn, iob0) ==
  [sawb_zero EXCEPT !.safn = SAFN, !.sasb = SASB_PERFORMANCE_MODE,
                    !.gunm = CAID0, !.guds = CAID123,
                    !.fncn = FNCN_PERFORMANCE_MODE, !.subn = subn,
                    !.iob = [i \in 0..9 |-> IF i = 0 THEN iob0 ELSE 0]]

\* memcpy(ret, out_obj->buffer.pointer, len): the first len bytes of src over
\* dst; bytes 21..32 are copied only when len reaches past them
memcpy_sawb(dst, src, len) ==
  IF len >= 33 THEN src
  ELSE [src EXCEPT !.fncn = dst.fncn, !.subn = dst.subn, !.iob = dst.iob,
                   !.beyond = dst.beyond]

(***************************************************************************)
(* ACPI transaction executor                                               *)
(***************************************************************************)
\* galaxybook_acpi_method with the length test written as "shorter than"
acpi_method_length_lt(buf, len, resp) ==
  IF resp.status = AE_OK
  THEN LET status0 == IF resp.type # "buffer" THEN -EIO ELSE AE_OK
       IN  IF resp.length < len THEN [err |-> -EIO, ret |-> buf]
           ELSE IF resp.length < SAWB_GUNM_POS + 1 THEN [err |-> -EIO, ret |-> buf]
           ELSE IF resp.frame.rflg # RFLG_SUCCESS THEN [err |-> -EIO, ret |-> buf]
           ELSE IF resp.frame.gunm = GUNM_FAIL THEN [err |-> -EIO, ret |-> buf]
           ELSE [err |-> status0, ret |-> memcpy_sawb(buf, resp.frame, len)]
  ELSE [err |-> resp.status, ret |-> buf]

\* galaxybook_acpi_method without the test of byte 5
acpi_method_no_gunm_test(buf, len, resp) ==
  IF resp.status = AE_OK
  THEN LET status0 == IF resp.type # "buffer" THEN -EIO ELSE AE_OK
       IN  IF resp.length # len THEN [err |-> -EIO, ret |-> buf]
           ELSE IF resp.length < SAWB_GUNM_POS + 1 THEN [err |-> -EIO, ret |-> buf]
           ELSE IF resp.frame.rflg # RFLG_SUCCESS THEN [err |-> -EIO, ret |-> buf]
           ELSE [err |-> status0, ret |-> memcpy_sawb(buf, resp.frame, len)]
  ELSE [err |-> resp.status, ret |-> buf]

\* galaxybook_acpi_method without the test of byte 4
acpi_method_no_rflg_test(buf, len, resp) ==
  IF resp.status = AE_OK
  THEN LET status0 == IF resp.type # "buffer" THEN -EIO ELSE AE_OK
       IN  IF resp.length # len THEN [err |-> -EIO, ret |-> buf]
           ELSE IF resp.length < SAWB_GUNM_POS + 1 THEN [err |-> -EIO, ret |-> buf]
           ELSE IF resp.frame.gunm = GUNM_FAIL THEN [err |-> -EIO, ret |-> buf]
           ELSE [err |-> status0, ret |-> memcpy_sawb(buf, resp.frame, len)]
  ELSE [err |-> resp.status, ret |-> buf]

\* A response object of acpi_evaluate_object: the acpi_status of the call,
\* the object type, the buffer length and the bytes of the buffer.
\* The result is the returned code and the caller's frame `ret`.
galaxybook_acpi_method(buf, len, resp) ==
  IF resp.status = AE_OK
  THEN LET status0 == IF resp.type # "buffer" THEN -EIO ELSE AE_OK
       IN  IF resp.length # len THEN [err |-> -EIO, ret |-> buf]
           ELSE IF resp.length < SAWB_GUNM_POS + 1 THEN [err |-> -EIO, ret |-> buf]
           ELSE IF resp.frame.rflg # RFLG_SUCCESS THEN [err |-> -EIO, ret |-> buf]
           ELSE IF resp.frame.gunm = GUNM_FAIL THEN [err |-> -EIO, ret |-> buf]
           ELSE [err |-> status0, ret |-> memcpy_sawb(buf, resp.frame, len)]
  ELSE [err |-> resp.status, ret |-> buf]

(***************************************************************************)
(* The firmware behind acpi_evaluate_object                                *)
(***************************************************************************)
\* the response object of a call that the firmware answered with a buffer
buffer_object(length, frame) ==
  [status |-> AE_OK, type |-> "buffer", length |-> length, frame |-> frame]

\* The firmware's own answer to a request, and the device state after it.
\* A set stores the value sent and echoes the request; a get reports the
\* stored value in the byte the driver decodes it from; the enable
\* handshake answers with the enabled signature.
firmware_honest(method, req, len, f) ==
  LET ok == [req EXCEPT !.rflg = RFLG_SUCCESS]
      same(frame) == [resp |-> buffer_object(len, frame), fw |-> f, kind |-> "ok"]
      store(frame, f2) == [resp |-> buffer_object(len, frame), fw |-> f2, kind |-> "ok"]
  IN  IF method = ACPI_METHOD_PERFORMANCE_MODE
      THEN CASE req.subn = SUBN_PERFORMANCE_MODE_GET ->
                  same([ok EXCEPT !.iob[0] = f.mode])
             [] req.subn = SUBN_PERFORMANCE_MODE_SET ->
                  store(ok, [f EXCEPT !.mode = req.iob[0]])
             [] OTHER -> same(ok)
      ELSE CASE req.gunm = GUNM_FEATURE_ENABLE ->
                  same([ok EXCEPT !.gunm = GUNM_FEATURE_ENABLE_SUCCESS,
                                  !.guds[1] = GUDS_FEATURE_ENABLE_SUCCESS])
             [] req.sasb = SASB_KBD_BACKLIGHT /\ req.gunm = GUNM_SET ->
                  store(ok, [f EXCEPT !.kbd = req.guds[1]])
             [] req.sasb = SASB_KBD_BACKLIGHT /\ req.gunm = GUNM_GET ->
                  same([ok EXCEPT !.gunm = f.kbd])
             [] req.sasb = SASB_POWER_MANAGEMENT
                  /\ req.guds[1] = GUDS_BATTERY_CHARGE_CONTROL
                  /\ req.guds[2] = GUDS_BATTERY_CHARGE_CONTROL_SET ->
                  store(ok, [f EXCEPT !.thr = req.guds[3]])
             [] req.sasb = SASB_POWER_MANAGEMENT
                  /\ req.guds[1] = GUDS_BATTERY_CHARGE_CONTROL
                  /\ req.guds[2] = GUDS_BATTERY_CHARGE_CONTROL_GET ->
                  same([ok EXCEPT !.guds[2] = f.thr])
             [] req.sasb = SASB_POWER_MANAGEMENT
                  /\ req.guds[1] = GUDS_START_ON_LID_OPEN
                  /\ req.guds[2] = GUDS_START_ON_LID_OPEN_SET ->
                  store(ok, [f EXCEPT !.lid = req.guds[3]])
             [] req.sasb = SASB_POWER_MANAGEMENT
                  /\ req.guds[1] = GUDS_START_ON_LID_OPEN
                  /\ req.guds[2] = GUDS_START_ON_LID_OPEN_GET ->
                  same([ok EXCEPT !.guds[2] = f.lid])
             [] req.sasb = SASB_USB_CHARGE_SET ->
                  store(ok, [f EXCEPT !.usb = IF req.gunm = GUNM_USB_CHARGE_ON
                                              THEN 1 ELSE 0])
             [] req.sasb = SASB_USB_CHARGE_GET ->
                  same([ok EXCEPT !.gunm = f.usb])
             [] req.sasb = SASB_ALLOW_RECORDING /\ req.gunm = GUNM_SET ->
                  store(ok, [f EXCEPT !.rec = req.guds[1]])
             [] req.sasb = SASB_ALLOW_RECORDING /\ req.gunm = GUNM_GET ->
                  same([ok EXCEPT !.gunm = f.rec])
             [] OTHER -> same(ok)

\* The ways a call can go wrong, one response for each: the call itself
\* fails, the object is no buffer, the buffer is one byte short, byte 4 is
\* not the success code, byte 5 is the failure code.  The device state is
\* left alone.
firmware_faults(method, req, len, f) ==
  LET ok == [req EXCEPT !.rflg = RFLG_SUCCESS]
      fault(kind, resp) == [resp |-> resp, fw |-> f, kind |-> kind]
  IN  { fault("transport", [buffer_object(0, sawb_zero) EXCEPT !.status = AE_NOT_FOUND]),
        fault("not_buffer", [buffer_object(0, sawb_zero) EXCEPT !.type = "integer"]),
        fault("length", buffer_object(len - 1, ok)),
        fault("rflg", buffer_object(len, req)),
        fault("gunm", buffer_object(len, [ok EXCEPT !.gunm = GUNM_FAIL])) }

\* the mode values a device lists: the seven the driver recognises and one
\* it does not
ModeValues ==
  {PERFORMANCE_MODE_OPTIMIZED_LEGACY, PERFORMANCE_MODE_PERFORMANCE_LEGACY,
   PERFORMANCE_MODE_OPTIMIZED, PERFORMANCE_MODE_QUIET, PERFORMANCE_MODE_SILENT,
   PERFORMANCE_MODE_PERFORMANCE, PERFORMANCE_MODE_ULTRA, 51}

\* the longest list of supported modes a device reports
MaxModes == 4

ModeLists == UNION {[1..n -> ModeValues] : n \in 0..MaxModes}

\* The answers to the "list" subfunction, one for each list a device may
\* hold: iob0 is the number of supported modes and iob1.. are the modes.
firmware_list(method, req, len, f) ==
  { [resp |-> buffer_object(len,
        [req EXCEPT !.rflg = RFLG_SUCCESS,
                    !.iob = [i \in 0..9 |-> IF i = 0 THEN Len(l)
                                            ELSE IF i <= Len(l) THEN l[i] ELSE 0]]),
     fw |-> f, kind |-> "ok"] : l \in ModeLists }

\* count bytes that exceed the nine entries iob1..iob9 of the response
OverCounts == {10, 255}

\* The answers to the "list" subfunction whose count byte is larger than
\* the number of entries the frame has room for: iob1 holds a mode or 0,
\* the bytes after iob9 any mode value.
firmware_list_overcount(method, req, len, f) ==
  { [resp |-> buffer_object(len,
        [req EXCEPT !.rflg = RFLG_SUCCESS,
                    !.iob = [i \in 0..9 |-> IF i = 0 THEN n
                                            ELSE IF i = 1 THEN v ELSE 0],
                    !.beyond = b]),
     fw |-> f, kind |-> "overcount"]
    : n \in OverCounts, v \in {0, PERFORMANCE_MODE_OPTIMIZED},
      b \in {0, PERFORMANCE_MODE_PERFORMANCE, 51} }

\* The firmware keeps the old value of a boolean setting and answers a
\* set with a frame that passes the executor and carries, in the byte of
\* the request that holds the value, the other value.
firmware_refusals(method, req, len, f) ==
  LET ok == [req EXCEPT !.rflg = RFLG_SUCCESS]
      refusal(frame) == [resp |-> buffer_object(len, frame), fw |-> f, kind |-> "refused"]
  IN  IF method # ACPI_METHOD_SETTINGS THEN {}
      ELSE IF /\ req.sasb = SASB_POWER_MANAGEMENT
              /\ req.guds[1] = GUDS_START_ON_LID_OPEN
              /\ req.guds[2] = GUDS_START_ON_LID_OPEN_SET
           THEN {refusal([ok EXCEPT !.guds[3] = 1 - req.guds[3]])}
      ELSE IF req.sasb = SASB_USB_CHARGE_SET
           THEN {refusal([ok EXCEPT !.gunm = IF req.gunm = GUNM_USB_CHARGE_ON
                                             THEN GUNM_USB_CHARGE_OFF
                                             ELSE GUNM_USB_CHARGE_ON])}
      ELSE IF req.sasb = SASB_ALLOW_RECORDING /\ req.gunm = GUNM_SET
           THEN {refusal([ok EXCEPT !.guds[1] = 1 - req.guds[1]])}
      ELSE {}

\* The answers to the enable handshake that pass the executor without the
\* whole enabled signature: the request echoed, and the signature in one of
\* its two bytes only.
firmware_unsigned(method, req, len, f) ==
  LET ok == [req EXCEPT !.rflg = RFLG_SUCCESS]
      unsigned(frame) == [resp |-> buffer_object(len, frame), fw |-> f, kind |-> "unsigned"]
  IN  IF method = ACPI_METHOD_SETTINGS /\ req.gunm = GUNM_FEATURE_ENABLE
      THEN { unsigned(ok),
             unsigned([ok EXCEPT !.gunm = GUNM_FEATURE_ENABLE_SUCCESS]),
             unsigned([ok EXCEPT !.guds[1] = GUDS_FEATURE_ENABLE_SUCCESS]) }
      ELSE {}

firmware(method, req, len, f) ==
  (IF method = ACPI_METHOD_PERFORMANCE_MODE /\ req.subn = SUBN_PERFORMANCE_MODE_LIST
   THEN firmware_list(method, req, len, f)
        \cup firmware_list_overcount(method, req, len, f)
   ELSE {firmware_honest(method, req, len, f)})
  \cup firmware_faults(method, req, len, f)
  \cup firmware_refusals(method, req, len, f)
  \cup firmware_unsigned(method, req, len, f)

\* One transaction: the firmware's reply run through the executor.  Each
\* outcome carries the returned code, the caller's frame, the device state
\* and the record of the transaction.
transact(method, req, len, f) ==
  { LET r == galaxybook_acpi_method(req, len, rep.resp)
    IN  [err |-> r.err, ret |-> r.ret, fw |-> rep.fw,
         tx |-> [method |-> method, len |-> len, req |-> req,
                 resp |-> rep.resp, kind |-> rep.kind,
                 err |-> r.err, ret |-> r.ret]]
    : rep \in firmware(method, req, len, f) }

(***************************************************************************)
(* What an operation leaves behind for its caller                          *)
(***************************************************************************)
\* op: the operation, arg: its input, err: the code it returned, val: the
\* value it produced, txs: the transactions it sent, in order
result(op, arg, err, val, txs) ==
  [op |-> op, arg |-> arg, err |-> err, val |-> val, txs |-> txs]

idle == result("idle", 0, 0, 0, <<>>)

\* the calling thread takes the result and is ready for its next call
caller_return ==
  /\ last.op # "idle"
  /\ last' = idle
  /\ UNCHANGED <<fw, gb, probe, prev>>

(***************************************************************************)
(* State after construction                                                *)
(***************************************************************************)
\* the device: keyboard brightness, charge threshold, performance mode,
\* the settings start-on-lid-open, USB charging and allow-recording, and
\* the byte the keyboard controller delivered last on the keyboard port
fw0 ==
  [kbd |-> 0, thr |-> 0, mode |-> PERFORMANCE_MODE_OPTIMIZED,
   lid |-> 0, usb |-> 0, rec |-> 0, i8042 |-> 0]

\* a zeroed struct galaxybook_fan: fan_speeds is the array the pointer
\* refers to (<<>> for NULL), freed tells that the array has been kfree'd,
\* attr that the fan_speed_rpm file exists on the fan device
fan0 ==
  [supports_fst |-> FALSE,
   fan_speeds |-> <<>>,
   fan_speeds_count |-> 0,
   freed |-> FALSE,
   attr |-> FALSE]

\* the driver: kzalloc'ed struct samsung_galaxybook, the module parameters
\* and the static `extended` of the key filter.  A work item is "zeroed"
\* before INIT_WORK, then "idle", and "pending" from schedule_work until
\* the work function is started.
gb0 ==
  [brightness |-> 0,
   profile_performance_modes |-> <<>>,
   choices |-> {},
   profile_registered |-> FALSE,
   performance_mode |-> TRUE,
   battery_threshold |-> TRUE,
   fans |-> [i \in 0..(MAX_FAN_COUNT - 1) |-> fan0],
   fans_count |-> 0,
   fan_speed |-> TRUE,
   kbd_backlight |-> TRUE,
   allow_recording |-> TRUE,
   i8042_filter |-> TRUE,
   extended |-> FALSE,
   kbd_backlight_hotkey_work |-> "zeroed",
   allow_recording_hotkey_work |-> "zeroed",
   performance_mode_hotkey_work |-> "zeroed",
   acpi_notify_handler |-> FALSE,
   input |-> FALSE,
   i8042_filter_installed |-> FALSE,
   attrs |-> <<>>,
   attrs_group |-> FALSE,
   battery_hook |-> FALSE,
   led |-> FALSE,
   hwmon |-> FALSE,
   performance_mode_value |-> 0,
   performance_mode_was_set |-> FALSE]

\* galaxybook_probe has not run yet; pc is the place the probe has reached,
\* fan_devices the number of fan devices acpi_get_devices has visited,
\* succeeded and failed the initialisations that returned 0 and an error,
\* store_requested that performance_mode_store has been called since the
\* device was added (revision without read-back)
\* a call of kbd_backlight_acpi_set that has not started: pc is where the
\* thread stands, brightness its argument, err the code of its transaction
call0 == [pc |-> "none", brightness |-> 0, err |-> 0]

\* store and work are the calls of kbd_backlight_acpi_set made by
\* kbd_backlight_store and by galaxybook_kbd_backlight_hotkey_work when the
\* two run at once; accepted is the level of the last set request for
\* which galaxybook_acpi_method returned 0, -1 when there is none
probe0 ==
  [pc |-> "start", fan_devices |-> 0, succeeded |-> {}, failed |-> {},
   store_requested |-> FALSE, galaxybook_ptr |-> "NULL",
   store |-> call0, work |-> call0, accepted |-> -1]

(***************************************************************************)
(* The executor on its own: every request the driver builds, against       *)
(* every shape of response                                                 *)
(***************************************************************************)
\* bytes a response may carry at offsets 4 and 5
EnvelopeBytes == {0, 1, RFLG_SUCCESS, GUNM_FEATURE_ENABLE_SUCCESS, GUNM_FAIL}

settings_call(req) ==
  [method |-> ACPI_METHOD_SETTINGS, len |-> SAWB_LEN_SETTINGS, req |-> req]

performance_call(req) ==
  [method |-> ACPI_METHOD_PERFORMANCE_MODE, len |-> SAWB_LEN_PERFORMANCE_MODE,
   req |-> req]

\* the calls of galaxybook_acpi_method in the driver
ExecCalls ==
  { settings_call(settings_request(sasb, GUNM_FEATURE_ENABLE, <<GUDS_FEATURE_ENABLE, 0, 0>>))
      : sasb \in {SASB_KBD_BACKLIGHT, SASB_POWER_MANAGEMENT, SASB_NOTIFICATIONS,
                  SASB_ALLOW_RECORDING} }
  \cup { settings_call(settings_request(SASB_KBD_BACKLIGHT, GUNM_SET, <<b, 0, 0>>))
           : b \in 0..KBD_BACKLIGHT_MAX_BRIGHTNESS }
  \cup { settings_call(settings_request(SASB_KBD_BACKLIGHT, GUNM_GET, <<0, 0, 0>>)),
         settings_call(settings_request(SASB_POWER_MANAGEMENT, GUNM_POWER_MANAGEMENT,
            <<GUDS_BATTERY_CHARGE_CONTROL, GUDS_BATTERY_CHARGE_CONTROL_SET, 80>>)),
         settings_call(settings_request(SASB_POWER_MANAGEMENT, GUNM_POWER_MANAGEMENT,
            <<GUDS_BATTERY_CHARGE_CONTROL, GUDS_BATTERY_CHARGE_CONTROL_GET, 0>>)),
         settings_call(settings_request(SASB_POWER_MANAGEMENT, GUNM_POWER_MANAGEMENT,
            <<GUDS_START_ON_LID_OPEN, GUDS_START_ON_LID_OPEN_GET, 0>>)),
         settings_call(settings_request(SASB_USB_CHARGE_GET, GUNM_USB_CHARGE_GET, <<0, 0, 0>>)),
         settings_call(settings_request(SASB_USB_CHARGE_SET, GUNM_USB_CHARGE_ON, <<0, 0, 0>>)),
         settings_call(settings_request(SASB_ALLOW_RECORDING, GUNM_SET, <<1, 0, 0>>)),
         performance_call(performance_request(SUBN_PERFORMANCE_MODE_LIST, 0)),
         performance_call(performance_request(SUBN_PERFORMANCE_MODE_GET, 0)),
         performance_call(performance_request(SUBN_PERFORMANCE_MODE_SET,
            PERFORMANCE_MODE_OPTIMIZED)) }

\* Every shape of response to a call: the call failing, or an object of
\* either type, of a length around the declared one or the other layout's,
\* with any of the envelope bytes at offsets 4 and 5.
ExecResponses(c) ==
  { [buffer_object(0, sawb_zero) EXCEPT !.status = st] : st \in {AE_ERROR, AE_NOT_FOUND} }
  \cup { [status |-> AE_OK, type |-> ty, length |-> n,
          frame |-> [c.req EXCEPT !.rflg = b4, !.gunm = b5]]
         : ty \in {"buffer", "integer"},
           n \in {c.len - 1, c.len, c.len + 1, SAWB_GUNM_POS,
                  SAWB_LEN_SETTINGS, SAWB_LEN_PERFORMANCE_MODE},
           b4 \in EnvelopeBytes, b5 \in EnvelopeBytes }

\* one call of galaxybook_acpi_method
acpi_transaction ==
  /\ last.op = "idle"
  /\ \E c \in ExecCalls : \E resp \in ExecResponses(c) :
       LET r == galaxybook_acpi_method(c.req, c.len, resp)
       IN  last' = result("acpi_method", 0, r.err, 0,
                     << [method |-> c.method, len |-> c.len, req |-> c.req,
                         resp |-> resp, kind |-> "any",
                         err |-> r.err, ret |-> r.ret] >>)
  /\ prev' = last
  /\ UNCHANGED <<fw, gb, probe>>

ExecInit == fw = fw0 /\ gb = gb0 /\ probe = probe0 /\ last = idle /\ prev = idle

ExecNext == acpi_transaction \/ caller_return

SpecExec == ExecInit /\ [][ExecNext]_vars

\* the transactions of the operation that has just run
Transactions == {last.txs[i] : i \in DOMAIN last.txs}

\* C1: a transaction whose response length differs from the length declared
\* for the request (21 for CSFI, 256 for CSXI) returns an error, whatever
\* the bytes of the response are.
C1_LengthMismatchIsError ==
  \A t \in Transactions :
    (t.resp.status = AE_OK /\ t.resp.length # t.len) => t.err # 0

\* a response one byte short with the success code at byte 4 and no failure
\* code at byte 5 has been rejected
C1_Witness ==
  \E t \in Transactions :
    /\ t.resp.status = AE_OK /\ t.resp.type = "buffer"
    /\ t.len = SAWB_LEN_SETTINGS /\ t.resp.length = SAWB_LEN_SETTINGS - 1
    /\ t.resp.frame.rflg = RFLG_SUCCESS /\ t.resp.frame.gunm # GUNM_FAIL
    /\ t.err = -EIO

\* C2: a response whose byte 5 is the failure code 0xff is rejected even
\* when its length matches and byte 4 is the success code 0xaa.
C2_FailureSentinelIsError ==
  \A t \in Transactions :
    (t.resp.status = AE_OK /\ t.resp.frame.gunm = GUNM_FAIL) => t.err # 0

\* a buffer of the declared length with 0xaa at byte 4 and 0xff at byte 5
\* has been rejected
C2_Witness ==
  \E t \in Transactions :
    /\ t.resp.status = AE_OK /\ t.resp.type = "buffer"
    /\ t.resp.length = t.len
    /\ t.resp.frame.rflg = RFLG_SUCCESS /\ t.resp.frame.gunm = GUNM_FAIL
    /\ t.err = -EIO

\* C3: a response whose byte 4 is not the success code 0xaa is rejected,
\* whatever feature the request addresses; and a transaction returns
\* success only if the firmware call succeeded and the response is a buffer
\* of the declared length with 0xaa at byte 4 and no 0xff at byte 5.
C3_SuccessOnlyForValidEnvelope ==
  \A t \in Transactions :
    /\ (t.resp.status = AE_OK /\ t.resp.frame.rflg # RFLG_SUCCESS) => t.err # 0
    /\ t.err = 0 => /\ t.resp.status = AE_OK
                    /\ t.resp.type = "buffer"
                    /\ t.resp.length = t.len
                    /\ t.resp.frame.rflg = RFLG_SUCCESS
                    /\ t.resp.frame.gunm # GUNM_FAIL

\* a buffer of the declared length without the success code at byte 4, and
\* without the failure code at byte 5, has been rejected on the
\* performance-mode method
C3_Witness ==
  \E t \in Transactions :
    /\ t.method = ACPI_METHOD_PERFORMANCE_MODE
    /\ t.resp.status = AE_OK /\ t.resp.type = "buffer"
    /\ t.resp.length = t.len
    /\ t.resp.frame.rflg # RFLG_SUCCESS /\ t.resp.frame.gunm # GUNM_FAIL
    /\ t.err = -EIO

(***************************************************************************)
(* Keyboard backlight                                                      *)
(***************************************************************************)
\* an outcome of a control-module call: the returned code, the value it
\* produced, the driver and device state after it, the transactions sent
outcome(err, val, g, f, txs) ==
  [err |-> err, val |-> val, gb |-> g, fw |-> f, txs |-> txs]

kbd_backlight_acpi_set(g, f, brightness) ==
  { IF o.err # 0
    THEN outcome(o.err, 0, g, o.fw, <<o.tx>>)
    ELSE outcome(0, 0, [g EXCEPT !.brightness = brightness], o.fw, <<o.tx>>)
    : o \in transact(ACPI_METHOD_SETTINGS,
                     settings_request(SASB_KBD_BACKLIGHT, GUNM_SET,
                                      <<brightness % 256, 0, 0>>),
                     SAWB_LEN_SETTINGS, f) }

\* kbd_backlight_acpi_get decoding the level from guds[0]
kbd_backlight_acpi_get_from_guds(g, f) ==
  { IF o.err # 0
    THEN outcome(o.err, 0, g, o.fw, <<o.tx>>)
    ELSE outcome(0, o.ret.guds[1], [g EXCEPT !.brightness = o.ret.guds[1]], o.fw, <<o.tx>>)
    : o \in transact(ACPI_METHOD_SETTINGS,
                     settings_request(SASB_KBD_BACKLIGHT, GUNM_GET, <<0, 0, 0>>),
                     SAWB_LEN_SETTINGS, f) }

kbd_backlight_acpi_get(g, f) ==
  { IF o.err # 0
    THEN outcome(o.err, 0, g, o.fw, <<o.tx>>)
    ELSE outcome(0, o.ret.gunm, [g EXCEPT !.brightness = o.ret.gunm], o.fw, <<o.tx>>)
    : o \in transact(ACPI_METHOD_SETTINGS,
                     settings_request(SASB_KBD_BACKLIGHT, GUNM_GET, <<0, 0, 0>>),
                     SAWB_LEN_SETTINGS, f) }

\* brightness_set_blocking of the LED class device, called with a level
\* of 0..max_brightness
kbd_backlight_store ==
  \E brightness \in 0..KBD_BACKLIGHT_MAX_BRIGHTNESS :
    \E o \in kbd_backlight_acpi_set(gb, fw, brightness) :
      /\ fw' = o.fw
      /\ gb' = o.gb
      /\ last' = result("kbd_backlight_store", brightness, o.err, 0, o.txs)
      /\ prev' = last
      /\ UNCHANGED probe

\* brightness_get of the LED class device: the level, or the error code
kbd_backlight_show ==
  \E o \in kbd_backlight_acpi_get(gb, fw) :
    /\ fw' = o.fw
    /\ gb' = o.gb
    /\ last' = result("kbd_backlight_show", 0, o.err,
                      IF o.err # 0 THEN o.err ELSE o.val, o.txs)
    /\ prev' = last
    /\ UNCHANGED probe

KbdInit ==
  /\ fw \in {[fw0 EXCEPT !.kbd = b] : b \in 0..KBD_BACKLIGHT_MAX_BRIGHTNESS}
  /\ gb = gb0
  /\ probe = probe0
  /\ last = idle
  /\ prev = idle

KbdNext == kbd_backlight_store \/ kbd_backlight_show

SpecKbd == KbdInit /\ [][KbdNext]_vars

\* the firmware answered every transaction of the operation r itself
Honest(r) == \A i \in DOMAIN r.txs : r.txs[i].kind = "ok"

\* C6: for every level L in 0..3, against a firmware that stores the level
\* set and reports it on read, set(L) followed by get() returns L.
C6_KbdRoundTrip ==
  (/\ prev.op = "kbd_backlight_store" /\ prev.err = 0 /\ Honest(prev)
   /\ last.op = "kbd_backlight_show" /\ Honest(last))
  => (last.err = 0 /\ last.val = prev.arg)

\* level 3 has been set and then read back as 3
C6_Witness ==
  /\ prev.op = "kbd_backlight_store" /\ prev.err = 0 /\ prev.arg = 3
  /\ last.op = "kbd_backlight_show" /\ last.err = 0 /\ last.val = 3

(***************************************************************************)
(* Battery charge threshold                                                *)
(***************************************************************************)
\* the largest number written to charge_control_end_threshold
MaxThresholdInput == 258

\* kstrtou8(buffer, 0, &value): the number the text denotes, or failure
\* when it does not fit a u8
kstrtou8(n) == IF n > 255 THEN [err |-> -EINVAL, value |-> 0]
               ELSE [err |-> 0, value |-> n]

\* charge_control_end_threshold_acpi_set sending the value as it is
threshold_acpi_set_raw(g, f, value) ==
  IF value > 100 THEN {outcome(-EINVAL, 0, g, f, <<>>)}
  ELSE { outcome(o.err, 0, g, o.fw, <<o.tx>>)
         : o \in transact(ACPI_METHOD_SETTINGS,
                          settings_request(SASB_POWER_MANAGEMENT, GUNM_POWER_MANAGEMENT,
                             <<GUDS_BATTERY_CHARGE_CONTROL,
                               GUDS_BATTERY_CHARGE_CONTROL_SET, value>>),
                          SAWB_LEN_SETTINGS, f) }

\* charge_control_end_threshold_acpi_set without the range test
threshold_acpi_set_unchecked(g, f, value) ==
  { outcome(o.err, 0, g, o.fw, <<o.tx>>)
    : o \in transact(ACPI_METHOD_SETTINGS,
                     settings_request(SASB_POWER_MANAGEMENT, GUNM_POWER_MANAGEMENT,
                        <<GUDS_BATTERY_CHARGE_CONTROL,
                          GUDS_BATTERY_CHARGE_CONTROL_SET,
                          IF value = 100 THEN 0 ELSE value>>),
                     SAWB_LEN_SETTINGS, f) }

charge_control_end_threshold_acpi_set(g, f, value) ==
  IF value > 100 THEN {outcome(-EINVAL, 0, g, f, <<>>)}
  ELSE { outcome(o.err, 0, g, o.fw, <<o.tx>>)
         : o \in transact(ACPI_METHOD_SETTINGS,
                          settings_request(SASB_POWER_MANAGEMENT, GUNM_POWER_MANAGEMENT,
                             <<GUDS_BATTERY_CHARGE_CONTROL,
                               GUDS_BATTERY_CHARGE_CONTROL_SET,
                               IF value = 100 THEN 0 ELSE value>>),
                          SAWB_LEN_SETTINGS, f) }

charge_control_end_threshold_acpi_get(g, f) ==
  { IF o.err # 0
    THEN outcome(o.err, 0, g, o.fw, <<o.tx>>)
    ELSE outcome(0, o.ret.guds[2], g, o.fw, <<o.tx>>)
    : o \in transact(ACPI_METHOD_SETTINGS,
                     settings_request(SASB_POWER_MANAGEMENT, GUNM_POWER_MANAGEMENT,
                        <<GUDS_BATTERY_CHARGE_CONTROL,
                          GUDS_BATTERY_CHARGE_CONTROL_GET, 0>>),
                     SAWB_LEN_SETTINGS, f) }

\* a write of the number n to the battery's charge_control_end_threshold
charge_control_end_threshold_store ==
  \E n \in 0..MaxThresholdInput :
    LET parsed == kstrtou8(n)
    IN  IF parsed.err # 0
        THEN /\ last' = result("charge_control_end_threshold_store", n, -EINVAL, 0, <<>>)
             /\ prev' = last
             /\ UNCHANGED <<fw, gb, probe>>
        ELSE \E o \in charge_control_end_threshold_acpi_set(gb, fw, parsed.value) :
               /\ fw' = o.fw
               /\ gb' = o.gb
               /\ last' = result("charge_control_end_threshold_store", n, o.err, 0, o.txs)
               /\ prev' = last
               /\ UNCHANGED probe

\* a read of charge_control_end_threshold
charge_control_end_threshold_show ==
  \E o \in charge_control_end_threshold_acpi_get(gb, fw) :
    /\ fw' = o.fw
    /\ gb' = o.gb
    /\ last' = result("charge_control_end_threshold_show", 0, o.err, o.val, o.txs)
    /\ prev' = last
    /\ UNCHANGED probe

BatteryInit ==
  /\ fw \in {[fw0 EXCEPT !.thr = t] : t \in {0, 80}}
  /\ gb = gb0
  /\ probe = probe0
  /\ last = idle
  /\ prev = idle

BatteryNext ==
  \/ (last.op = "idle" /\ charge_control_end_threshold_store)
  \/ (last.op = "idle" /\ charge_control_end_threshold_show)
  \/ caller_return

SpecBattery == BatteryInit /\ [][BatteryNext]_vars

\* the frame of a settings request that sets the charge threshold to v
IsThresholdSet(t, v) ==
  /\ t.method = ACPI_METHOD_SETTINGS /\ t.len = SAWB_LEN_SETTINGS
  /\ t.req = settings_request(SASB_POWER_MANAGEMENT, GUNM_POWER_MANAGEMENT,
                <<GUDS_BATTERY_CHARGE_CONTROL, GUDS_BATTERY_CHARGE_CONTROL_SET, v>>)

\* C4: for every percentage P in 0..100, set(P) transmits the value 0 when
\* P = 100 and the value P when P is in 0..99.
C4_ThresholdTransmitted ==
  (last.op = "charge_control_end_threshold_store" /\ last.arg \in 0..100)
  => /\ Len(last.txs) = 1
     /\ IsThresholdSet(last.txs[1], IF last.arg = 100 THEN 0 ELSE last.arg)

\* a write of 100 has been sent as 0 and the device has stored 0
C4_Witness ==
  /\ last.op = "charge_control_end_threshold_store" /\ last.arg = 100
  /\ last.err = 0
  /\ IsThresholdSet(last.txs[1], 0)
  /\ fw.thr = 0

\* C5: for every value P greater than 100, set(P) fails with an error, no
\* firmware call is made and the device state is unchanged.
C5_ThresholdOver100Rejected ==
  [][(last'.op = "charge_control_end_threshold_store" /\ last'.arg > 100)
       => (last'.err # 0 /\ last'.txs = <<>> /\ fw' = fw)]_vars

\* a write of 101 has failed with -EINVAL without a firmware call, the
\* device still holding a threshold of 80
C5_Witness ==
  /\ last.op = "charge_control_end_threshold_store" /\ last.arg = 101
  /\ last.err = -EINVAL /\ last.txs = <<>>
  /\ fw.thr = 80

(***************************************************************************)
(* Feature enable handshake                                                *)
(***************************************************************************)
galaxybook_enable_acpi_feature(g, f, sasb) ==
  { IF o.err # 0
    THEN outcome(o.err, 0, g, o.fw, <<o.tx>>)
    ELSE IF o.ret.gunm # GUNM_FEATURE_ENABLE_SUCCESS
            /\ o.ret.guds[1] # GUDS_FEATURE_ENABLE_SUCCESS
         THEN outcome(-ENODEV, 0, g, o.fw, <<o.tx>>)
         ELSE outcome(0, 0, g, o.fw, <<o.tx>>)
    : o \in transact(ACPI_METHOD_SETTINGS,
                     settings_request(sasb, GUNM_FEATURE_ENABLE,
                                      <<GUDS_FEATURE_ENABLE, 0, 0>>),
                     SAWB_LEN_SETTINGS, f) }

(***************************************************************************)
(* Platform profile / performance mode                                     *)
(***************************************************************************)
Profiles == 0..(PLATFORM_PROFILE_LAST - 1)

performance_mode_acpi_set(g, f, performance_mode) ==
  { outcome(o.err, 0, g, o.fw, <<o.tx>>)
    : o \in transact(ACPI_METHOD_PERFORMANCE_MODE,
                     performance_request(SUBN_PERFORMANCE_MODE_SET, performance_mode),
                     SAWB_LEN_PERFORMANCE_MODE, f) }

performance_mode_acpi_get(g, f) ==
  { IF o.err # 0
    THEN outcome(o.err, 0, g, o.fw, <<o.tx>>)
    ELSE outcome(0, o.ret.iob[0], g, o.fw, <<o.tx>>)
    : o \in transact(ACPI_METHOD_PERFORMANCE_MODE,
                     performance_request(SUBN_PERFORMANCE_MODE_GET, 0),
                     SAWB_LEN_PERFORMANCE_MODE, f) }

\* the first slot of the table that holds performance_mode, or -1
profile_performance_mode(modes, performance_mode) ==
  IF \E i \in Profiles : modes[i] = performance_mode
  THEN CHOOSE i \in Profiles :
         /\ modes[i] = performance_mode
         /\ \A j \in Profiles : modes[j] = performance_mode => i <= j
  ELSE -1

galaxybook_platform_profile_set(g, f, profile) ==
  performance_mode_acpi_set(g, f, g.profile_performance_modes[profile])

galaxybook_platform_profile_get(g, f) ==
  { IF o.err # 0
    THEN o
    ELSE LET profile == profile_performance_mode(g.profile_performance_modes, o.val)
         IN  IF profile = -1
             THEN outcome(-EINVAL, 0, g, o.fw, o.txs)
             ELSE outcome(0, profile, g, o.fw, o.txs)
    : o \in performance_mode_acpi_get(g, f) }

\* the switch of galaxybook_profile_init: the slot for the listed value v,
\* given the table as mapped so far
mode_profile(modes, v) ==
  CASE v = PERFORMANCE_MODE_ULTRA -> PLATFORM_PROFILE_PERFORMANCE
    [] v = PERFORMANCE_MODE_PERFORMANCE ->
         IF modes[PLATFORM_PROFILE_PERFORMANCE] # PERFORMANCE_MODE_UNKNOWN
         THEN PLATFORM_PROFILE_BALANCED_PERFORMANCE
         ELSE PLATFORM_PROFILE_PERFORMANCE
    [] v = PERFORMANCE_MODE_SILENT -> PLATFORM_PROFILE_LOW_POWER
    [] v = PERFORMANCE_MODE_QUIET ->
         IF modes[PLATFORM_PROFILE_LOW_POWER] # PERFORMANCE_MODE_UNKNOWN
         THEN PLATFORM_PROFILE_QUIET
         ELSE PLATFORM_PROFILE_LOW_POWER
    [] v = PERFORMANCE_MODE_OPTIMIZED -> PLATFORM_PROFILE_BALANCED
    [] v = PERFORMANCE_MODE_PERFORMANCE_LEGACY ->
         IF modes[PLATFORM_PROFILE_PERFORMANCE] = PERFORMANCE_MODE_UNKNOWN
         THEN PLATFORM_PROFILE_PERFORMANCE
         ELSE IGNORE_PERFORMANCE_MODE_MAPPING
    [] v = PERFORMANCE_MODE_OPTIMIZED_LEGACY ->
         IF modes[PLATFORM_PROFILE_BALANCED] = PERFORMANCE_MODE_UNKNOWN
         THEN PLATFORM_PROFILE_BALANCED
         ELSE IGNORE_PERFORMANCE_MODE_MAPPING
    [] OTHER -> IGNORE_PERFORMANCE_MODE_MAPPING

\* the loop body without set_bit on the choices bitmap
map_performance_mode_no_set_bit(m, v) ==
  IF mode_profile(m.modes, v) > IGNORE_PERFORMANCE_MODE_MAPPING
  THEN [m EXCEPT !.modes[mode_profile(m.modes, v)] = v, !.err = 0]
  ELSE m

\* one pass of the loop body for the value v: m holds the table, the
\* choices bitmap and err
map_performance_mode(m, v) ==
  IF mode_profile(m.modes, v) > IGNORE_PERFORMANCE_MODE_MAPPING
  THEN [m EXCEPT !.modes[mode_profile(m.modes, v)] = v,
                 !.choices = @ \cup {mode_profile(m.modes, v)},
                 !.err = 0]
  ELSE m

\* buf.iob_values[i]: iob0..iob9 for i in 0..9; a larger index reads the
\* bytes that follow iob9, in the frame up to i = 232 and past its end
\* from there
iob_values(buf, i) == IF i \in DOMAIN buf.iob THEN buf.iob[i] ELSE buf.beyond

\* the loop body at index i; read keeps the highest index read so far
map_performance_mode_at(buf, i, m) ==
  map_performance_mode([m EXCEPT !.read = IF i > @ THEN i ELSE @], iob_values(buf, i))

\* the pass at index i, past iob9, leaves the table as it is; the passes
\* at the other indexes past iob9 read the same byte and do the same
settled_beyond(buf, i, m) ==
  /\ i \notin DOMAIN buf.iob
  /\ map_performance_mode_at(buf, i, m) = [m EXCEPT !.read = IF i > @ THEN i ELSE @]

\* for (int i = buf.iob0; i > 0; i--) over buf.iob_values[i]; the passes
\* past iob9 that change nothing are taken in one step
RECURSIVE map_performance_modes_from(_, _, _)
map_performance_modes_from(buf, i, m) ==
  IF i <= 0 THEN m
  ELSE IF settled_beyond(buf, i, m)
  THEN map_performance_modes_from(buf, 9, map_performance_mode_at(buf, i, m))
  ELSE map_performance_modes_from(buf, i - 1, map_performance_mode_at(buf, i, m))

\* the same loop running from the first value to the last
RECURSIVE map_performance_modes_upwards(_, _, _)
map_performance_modes_upwards(buf, i, m) ==
  IF i > buf.iob[0] THEN m
  ELSE IF settled_beyond(buf, i, m)
  THEN map_performance_mode_at(buf, buf.iob[0], m)
  ELSE map_performance_modes_upwards(buf, i + 1, map_performance_mode_at(buf, i, m))

\* the table before the loop: every slot "unknown", err = -ENODEV
unmapped_performance_modes ==
  [modes |-> [i \in Profiles |-> PERFORMANCE_MODE_UNKNOWN], choices |-> {},
   err |-> -ENODEV, read |-> 0]

\* the mapping done with the loop running upwards
supported_performance_modes_upwards(buf) ==
  map_performance_modes_upwards(buf, 1, unmapped_performance_modes)

\* the mapping done with err starting at 0
supported_performance_modes_err_clear(buf) ==
  map_performance_modes_from(buf, buf.iob[0],
                             [unmapped_performance_modes EXCEPT !.err = 0])

\* the mapping of the listed values in the response buf to profile slots
supported_performance_modes(buf) ==
  map_performance_modes_from(buf, buf.iob[0], unmapped_performance_modes)

\* values an uninitialised u8 local may hold
UninitBytes == ModeValues \cup {PERFORMANCE_MODE_UNKNOWN}

\* galaxybook_profile_init has returned err to galaxybook_probe, which
\* switches performance_mode off and goes on with the next feature
profile_init_failed(err, val, g, f, txs, op) ==
  /\ fw' = f
  /\ gb' = [g EXCEPT !.performance_mode = FALSE]
  /\ probe' = [probe EXCEPT !.pc = "battery"]
  /\ last' = result(op, 0, err, val, txs)
  /\ UNCHANGED prev

\* the probe's record of an initialisation that returned err
initialised(p, feature, err) ==
  IF err = 0 THEN [p EXCEPT !.succeeded = @ \cup {feature}]
  ELSE [p EXCEPT !.failed = @ \cup {feature}]

\* galaxybook_probe up to the enable method SDLS: galaxybook_ptr is set to
\* the context just allocated; on failure the context is freed and the
\* probe returns the error
probe_acpi_init ==
  /\ probe.pc = "start"
  /\ \E err \in {0, -ENODEV} :
       /\ probe' = [probe EXCEPT !.pc = IF err = 0 THEN "power_management" ELSE "failed",
                                 !.galaxybook_ptr = "galaxybook"]
       /\ last' = result("galaxybook_acpi_init", 0, err, 0, <<>>)
  /\ UNCHANGED <<fw, gb, prev>>

\* the power-management handshake of galaxybook_probe
probe_power_management ==
  /\ probe.pc = "power_management"
  /\ \E o \in galaxybook_enable_acpi_feature(gb, fw, SASB_POWER_MANAGEMENT) :
       /\ fw' = o.fw
       /\ gb' = IF o.err # 0
                THEN [gb EXCEPT !.performance_mode = FALSE, !.battery_threshold = FALSE]
                ELSE gb
       /\ last' = result("galaxybook_enable_acpi_feature", SASB_POWER_MANAGEMENT,
                         o.err, 0, o.txs)
       /\ probe' = initialised([probe EXCEPT !.pc = "profile"], "power_management", o.err)
  /\ UNCHANGED prev

\* galaxybook_probe with performance_mode off: profile init is skipped
probe_profile_disabled ==
  /\ probe.pc = "profile"
  /\ ~gb.performance_mode
  /\ probe' = [probe EXCEPT !.pc = "battery"]
  /\ last' = result("performance_mode is disabled", 0, 0, 0, <<>>)
  /\ UNCHANGED <<fw, gb, prev>>

\* galaxybook_profile_init up to the end of the mapping loop: the list
\* query, the allocation of the table and the mapping
profile_init_list ==
  /\ probe.pc = "profile"
  /\ gb.performance_mode
  /\ \E o \in transact(ACPI_METHOD_PERFORMANCE_MODE,
                        performance_request(SUBN_PERFORMANCE_MODE_LIST, 0),
                        SAWB_LEN_PERFORMANCE_MODE, fw) :
       IF o.err # 0
       THEN profile_init_failed(o.err, 0, gb, o.fw, <<o.tx>>, "profile_init_list")
       ELSE \/ profile_init_failed(-ENOMEM, 0, gb, o.fw, <<o.tx>>, "profile_init_list")
            \/ LET m == supported_performance_modes(o.ret)
                    g == [gb EXCEPT !.profile_performance_modes = m.modes,
                                    !.choices = m.choices]
                IN  IF m.err # 0
                    THEN profile_init_failed(m.err, m.read, g, o.fw, <<o.tx>>,
                                             "profile_init_list")
                    ELSE /\ fw' = o.fw
                         /\ gb' = g
                         /\ probe' = [probe EXCEPT !.pc = "profile_register"]
                         /\ last' = result("profile_init_list", 0, 0, m.read, <<o.tx>>)
                         /\ UNCHANGED prev

\* galaxybook_profile_init: platform_profile_register
profile_init_register ==
  /\ probe.pc = "profile_register"
  /\ \/ profile_init_failed(-EINVAL, 0, gb, fw, <<>>, "profile_init_register")
     \/ /\ gb' = [gb EXCEPT !.profile_registered = TRUE]
        /\ probe' = [probe EXCEPT !.pc = "profile_current"]
        /\ last' = result("profile_init_register", 0, 0, 0, <<>>)
        /\ UNCHANGED <<fw, prev>>

\* galaxybook_profile_init from the read of the current mode to the end:
\* when the read fails current_performance_mode is left uninitialised;
\* a current mode that no slot holds makes the default profile be set
profile_init_current ==
  /\ probe.pc = "profile_current"
  /\ \E o \in performance_mode_acpi_get(gb, fw) :
       \E current \in (IF o.err = 0 THEN {o.val} ELSE UninitBytes) :
         IF profile_performance_mode(gb.profile_performance_modes, current) = -1
         THEN \E d \in galaxybook_platform_profile_set(gb, o.fw, DEFAULT_PLATFORM_PROFILE) :
                IF d.err # 0
                THEN profile_init_failed(d.err, current, gb, d.fw, o.txs \o d.txs,
                                         "profile_init_current")
                ELSE /\ fw' = d.fw
                     /\ last' = result("profile_init_current", 0, 0, current,
                                       o.txs \o d.txs)
                     /\ probe' = [probe EXCEPT !.pc = "battery"]
                     /\ UNCHANGED <<gb, prev>>
         ELSE /\ fw' = o.fw
              /\ last' = result("profile_init_current", 0, 0, current, o.txs)
              /\ probe' = [probe EXCEPT !.pc = "battery"]
              /\ UNCHANGED <<gb, prev>>

\* the rest of galaxybook_probe: the features after the platform profile;
\* none of their failures makes the probe fail
probe_remaining_features ==
  /\ probe.pc = "battery"
  /\ probe' = [probe EXCEPT !.pc = "loaded"]
  /\ last' = idle
  /\ UNCHANGED <<fw, gb, prev>>

\* profile_set of the registered handler; the platform-profile core calls
\* it only with a profile of the handler's choices
platform_profile_set ==
  /\ probe.pc = "loaded"
  /\ gb.profile_registered
  /\ \E profile \in gb.choices :
       \E o \in galaxybook_platform_profile_set(gb, fw, profile) :
         /\ fw' = o.fw
         /\ last' = result("platform_profile_set", profile, o.err, 0, o.txs)
  /\ UNCHANGED <<gb, probe, prev>>

\* profile_get of the registered handler
platform_profile_get ==
  /\ probe.pc = "loaded"
  /\ gb.profile_registered
  /\ \E o \in galaxybook_platform_profile_get(gb, fw) :
       /\ fw' = o.fw
       /\ last' = result("platform_profile_get", 0, o.err, o.val, o.txs)
  /\ UNCHANGED <<gb, probe, prev>>

\* the firmware changes the performance mode on its own
firmware_mode_change ==
  /\ probe.pc = "loaded"
  /\ \E m \in UninitBytes : fw' = [fw EXCEPT !.mode = m]
  /\ UNCHANGED <<gb, probe, last, prev>>

ProfileInit ==
  /\ fw \in {[fw0 EXCEPT !.mode = m] : m \in UninitBytes}
  /\ gb \in {[gb0 EXCEPT !.performance_mode = b] : b \in BOOLEAN}
  /\ probe = probe0
  /\ last = idle
  /\ prev = idle

ProfileNext ==
  \/ probe_acpi_init
  \/ probe_power_management
  \/ probe_profile_disabled
  \/ profile_init_list
  \/ profile_init_register
  \/ profile_init_current
  \/ probe_remaining_features
  \/ (last.op = "idle" /\ platform_profile_set)
  \/ (last.op = "idle" /\ platform_profile_get)
  \/ (last.op = "idle" /\ firmware_mode_change)
  \/ (probe.pc = "loaded" /\ caller_return)

SpecProfile == ProfileInit /\ [][ProfileNext]_vars

\* the list of modes carried by the response of the transaction t
reported_modes(t) == [i \in 1..t.resp.frame.iob[0] |-> iob_values(t.resp.frame, i)]

\* the list step has run on a list the executor accepted
ListAccepted ==
  /\ last.op = "profile_init_list"
  /\ Len(last.txs) = 1
  /\ last.txs[1].err = 0

\* the mode values the mapping switch has a case for
RecognisedModes ==
  {PERFORMANCE_MODE_OPTIMIZED_LEGACY, PERFORMANCE_MODE_PERFORMANCE_LEGACY,
   PERFORMANCE_MODE_OPTIMIZED, PERFORMANCE_MODE_QUIET, PERFORMANCE_MODE_SILENT,
   PERFORMANCE_MODE_PERFORMANCE, PERFORMANCE_MODE_ULTRA}

\* t is a set request of the performance-mode method
IsModeSet(t) ==
  /\ t.method = ACPI_METHOD_PERFORMANCE_MODE
  /\ t.req.subn = SUBN_PERFORMANCE_MODE_SET

\* the table with balanced = 0x02, quiet = 0x0a, low-power = 0x0b,
\* performance = 0x15 and every other slot unmapped
C7_Table ==
  [i \in Profiles |->
     CASE i = PLATFORM_PROFILE_BALANCED -> PERFORMANCE_MODE_OPTIMIZED
       [] i = PLATFORM_PROFILE_QUIET -> PERFORMANCE_MODE_QUIET
       [] i = PLATFORM_PROFILE_LOW_POWER -> PERFORMANCE_MODE_SILENT
       [] i = PLATFORM_PROFILE_PERFORMANCE -> PERFORMANCE_MODE_PERFORMANCE
       [] OTHER -> PERFORMANCE_MODE_UNKNOWN]

\* the four values 0x02, 0x0a, 0x0b, 0x15, each listed once, with 0x0a
\* listed ahead of 0x0b as in the ascending list
C7_Lists ==
  { l \in [1..4 -> {PERFORMANCE_MODE_OPTIMIZED, PERFORMANCE_MODE_QUIET,
                    PERFORMANCE_MODE_SILENT, PERFORMANCE_MODE_PERFORMANCE}] :
      /\ \A i, j \in 1..4 : l[i] = l[j] => i = j
      /\ \A i, j \in 1..4 :
           (l[i] = PERFORMANCE_MODE_QUIET /\ l[j] = PERFORMANCE_MODE_SILENT) => i < j }

C8_NoSlotDisablesProfile ==
  /\ (/\ ListAccepted /\ last.err # -ENOMEM
      /\ \A i \in DOMAIN reported_modes(last.txs[1]) :
           reported_modes(last.txs[1])[i] \notin RecognisedModes)
     => /\ last.err = -ENODEV
        /\ gb.choices = {}
        /\ ~gb.profile_registered
        /\ ~gb.performance_mode
        /\ probe.pc = "battery"
  /\ (gb.profile_performance_modes # <<>> /\ gb.choices = {})
     => /\ ~gb.profile_registered
        /\ ~gb.performance_mode
        /\ probe.pc \in {"battery", "loaded"}

\* the device listed only an unrecognised value, and the driver has loaded
\* with performance mode off and no handler registered
C8_Witness ==
  /\ probe.pc = "loaded"
  /\ gb.profile_performance_modes = [i \in Profiles |-> PERFORMANCE_MODE_UNKNOWN]
  /\ gb.choices = {}
  /\ ~gb.profile_registered
  /\ ~gb.performance_mode

\* C9: a profile set for a slot whose table entry is the sentinel 0xff
\* fails and sends no set transaction, for the handler called by the
\* platform-profile core and for the default-profile set during attach.
C9_UnmappedSetRejected ==
  /\ (/\ last.op = "platform_profile_set"
      /\ gb.profile_performance_modes[last.arg] = PERFORMANCE_MODE_UNKNOWN)
     => /\ last.err # 0
        /\ \A i \in DOMAIN last.txs : ~IsModeSet(last.txs[i])
  /\ (/\ last.op = "profile_init_current"
      /\ profile_performance_mode(gb.profile_performance_modes, last.val) = -1
      /\ gb.profile_performance_modes[DEFAULT_PLATFORM_PROFILE] = PERFORMANCE_MODE_UNKNOWN)
     => /\ last.err # 0
        /\ \A i \in DOMAIN last.txs : ~IsModeSet(last.txs[i])

\* C10: a get that reads a raw byte which is not the mapped value of a slot
\* fails, and a get that succeeds returns a mapped slot.
C10_GetRejectsUnmappedByte ==
  (/\ last.op = "platform_profile_get"
   /\ Len(last.txs) = 1
   /\ last.txs[1].err = 0)
  => /\ (last.txs[1].ret.iob[0]
           \notin {gb.profile_performance_modes[p] : p \in gb.choices})
          => last.err # 0
     /\ last.err = 0 => last.val \in gb.choices

(***************************************************************************)
(* Fan speed                                                               *)
(***************************************************************************)
\* The speeds and levels of the model are far below INT_MAX, where the
\* unsigned int arithmetic of the code does not wrap and the conversions
\* between unsigned int and int keep the value.
INT_MAX == 2147483647

\* objects returned by acpi_evaluate_object for the fan methods
acpi_integer(v) == [type |-> "integer", value |-> v]
acpi_string == [type |-> "string", value |-> 0]
acpi_package(elements) == [type |-> "package", elements |-> elements]
acpi_evaluated(obj) == [status |-> AE_OK, obj |-> obj]
acpi_evaluate_failed == [status |-> AE_NOT_FOUND, obj |-> acpi_string]

\* the longest FANT table of a fan device
MaxFanTable == 2

\* the entries of a FANT table: speeds, and one entry that is no integer
FanTableEntries == {acpi_integer(3500), acpi_integer(4730), acpi_string}

FanTables == UNION {[1..n -> FanTableEntries] : n \in 0..MaxFanTable}

\* what evaluating _FST of a fan device gives: an exception, a package of
\* the wrong size, and the packages reporting the speeds 0 and 1525
FstResponses ==
  {acpi_evaluate_failed,
   acpi_evaluated(acpi_package(<<acpi_integer(0), acpi_integer(1)>>)),
   acpi_evaluated(acpi_package(<<acpi_integer(0), acpi_integer(0), acpi_integer(0)>>)),
   acpi_evaluated(acpi_package(<<acpi_integer(0), acpi_integer(1), acpi_integer(1525)>>))}

\* what evaluating FANT of a fan device gives
FantResponses ==
  {acpi_evaluate_failed, acpi_evaluated(acpi_integer(0))}
  \cup {acpi_evaluated(acpi_package(t)) : t \in FanTables}

StandardFanMethods == {"_FIF", "_FPS", "_FSL", "_FST"}

\* the fan devices of the namespace: the methods a device has and what
\* _FST and FANT evaluate to; a method that is absent cannot be evaluated
FanDevices ==
  { d \in { [methods |-> m, fst |-> f, fant |-> t] :
              m \in {o \cup x : o \in {{}, {"_FIF", "_FPS", "_FSL"}},
                                x \in SUBSET {"_FST", ACPI_FAN_SPEED_LIST}},
              f \in FstResponses, t \in FantResponses } :
      /\ "_FST" \notin d.methods => d.fst = acpi_evaluate_failed
      /\ ACPI_FAN_SPEED_LIST \notin d.methods => d.fant = acpi_evaluate_failed }

acpi_has_method(d, name) == name \in d.methods

\* the FANS field of the embedded controller: whether it exists, and what
\* reading it gives (an exception, a string, the levels 0 .. MaxFanTable + 3)
FansFields ==
  {[exists |-> FALSE, value |-> acpi_evaluate_failed],
   [exists |-> TRUE, value |-> acpi_evaluate_failed],
   [exists |-> TRUE, value |-> acpi_evaluated(acpi_string)]}
  \cup {[exists |-> TRUE, value |-> acpi_evaluated(acpi_integer(l))]
          : l \in 0..(MaxFanTable + 3)}

\* what a read past the end of the fan_speeds array may give
OutOfBoundsReads == {0, 57005}

fan_speed_get_fst(d) ==
  IF d.fst.status # AE_OK
  THEN [err |-> -ENODEV, speed |-> 0]
  ELSE IF \/ d.fst.obj.type # "package"
          \/ Len(d.fst.obj.elements) # 3
          \/ d.fst.obj.elements[3].type # "integer"
       THEN [err |-> -EINVAL, speed |-> 0]
       ELSE [err |-> 0, speed |-> d.fst.obj.elements[3].value]

\* the set of results: a level equal to fan_speeds_count passes the test
\* and reads the array at that index
fan_speed_get_fans(fan, fans) ==
  IF fans.value.status # AE_OK
  THEN {[err |-> -ENODEV, speed |-> 0, level |-> -1]}
  ELSE IF \/ fans.value.obj.type # "integer"
          \/ fans.value.obj.value > INT_MAX
          \/ fans.value.obj.value > fan.fan_speeds_count
       THEN {[err |-> -EINVAL, speed |-> 0, level |-> -1]}
       ELSE LET speed_level == fans.value.obj.value
            IN  IF speed_level \in DOMAIN fan.fan_speeds /\ ~fan.freed
                THEN {[err |-> 0, speed |-> fan.fan_speeds[speed_level],
                       level |-> speed_level]}
                ELSE {[err |-> 0, speed |-> v, level |-> speed_level]
                        : v \in OutOfBoundsReads}

fan_speed_get(fan, d, fans) ==
  IF fan.supports_fst
  THEN {[err |-> r.err, speed |-> r.speed, level |-> -1] : r \in {fan_speed_get_fst(d)}}
  ELSE fan_speed_get_fans(fan, fans)

\* the loop over the FANT package without the correction of 0x0a
RECURSIVE fan_speeds_from_table_uncorrected(_, _, _)
fan_speeds_from_table_uncorrected(elements, i, fan) ==
  IF i > Len(elements) THEN [err |-> 0, fan |-> fan, i |-> i]
  ELSE IF elements[i].type # "integer" THEN [err |-> -EINVAL, fan |-> fan, i |-> i]
  ELSE fan_speeds_from_table_uncorrected(elements, i + 1,
         [fan EXCEPT !.fan_speeds[i] = elements[i].value,
                     !.fan_speeds_count = @ + 1])

\* the loop over the FANT package: fan_speeds[i] = element i-1 + 0x0a for
\* i = 1, 2, ... until an element is no integer
RECURSIVE fan_speeds_from_table(_, _, _)
fan_speeds_from_table(elements, i, fan) ==
  IF i > Len(elements) THEN [err |-> 0, fan |-> fan, i |-> i]
  ELSE IF elements[i].type # "integer" THEN [err |-> -EINVAL, fan |-> fan, i |-> i]
  ELSE fan_speeds_from_table(elements, i + 1,
         [fan EXCEPT !.fan_speeds[i] = elements[i].value + 10,
                     !.fan_speeds_count = @ + 1])

\* the array has been kfree'd: the pointer dangles, the content is gone
kfree_fan_speeds(fan) == [fan EXCEPT !.fan_speeds = <<>>, !.freed = TRUE]

\* the list initialisation taken to succeed whatever FANT gives
fan_speed_list_init_unchecked(d, fan, fans) == {[err |-> 0, fan |-> fan]}

\* the set of results [err, fan]: the allocation may fail, and the read of
\* FANS that ends the function may give any of its results
fan_speed_list_init(d, fan, fans) ==
  IF d.fant.status # AE_OK
  THEN {[err |-> -ENODEV, fan |-> fan]}
  ELSE IF d.fant.obj.type # "package" \/ Len(d.fant.obj.elements) = 0
  THEN {[err |-> -EINVAL, fan |-> fan]}
  ELSE
    LET count == Len(d.fant.obj.elements)
        allocated == [fan EXCEPT !.fan_speeds = [i \in 0..(count + 1) |-> 0],
                                 !.freed = FALSE,
                                 !.fan_speeds_count = 1]
        listed == fan_speeds_from_table(d.fant.obj.elements, 1, allocated)
        i == listed.i
        topped == IF listed.fan.fan_speeds_count > 1
                  THEN [listed.fan EXCEPT
                          !.fan_speeds[i] = listed.fan.fan_speeds[i - 1] + 1000,
                          !.fan_speeds_count = @ + 1]
                  ELSE listed.fan
    IN  {[err |-> -ENOMEM, fan |-> [fan EXCEPT !.fan_speeds = <<>>, !.freed = FALSE]]}
        \cup
        (IF listed.err # 0
         THEN {[err |-> listed.err, fan |-> kfree_fan_speeds(listed.fan)]}
         ELSE { IF r.err # 0
                THEN [err |-> r.err, fan |-> kfree_fan_speeds(topped)]
                ELSE [err |-> 0, fan |-> topped]
                : r \in fan_speed_get_fans(topped, fans) })

\* no fan is ever left to the ACPI fan driver
acpi4_fan_device_never(d) == FALSE

\* the test that leaves a fan to the ACPI fan driver
acpi4_fan_device(d) ==
  /\ acpi_has_method(d, "_FIF")
  /\ acpi_has_method(d, "_FPS")
  /\ acpi_has_method(d, "_FSL")
  /\ acpi_has_method(d, "_FST")

\* supports_fst as galaxybook_add_fan sets it
fan_supports_fst(d, fans) ==
  LET r == fan_speed_get_fst(d)
  IN  IF r.err # 0 THEN FALSE
      ELSE IF /\ r.speed <= 0
              /\ acpi_has_method(d, ACPI_FAN_SPEED_LIST)
              /\ fans.exists
           THEN FALSE
           ELSE TRUE

\* FANS is never taken to be in use
fans_field_never_in_use(g) == FALSE

\* the loop over the fans added so far: one of them reads FANS
fans_field_in_use(g) ==
  \E i \in 0..(g.fans_count - 1) : ~g.fans[i].supports_fst

\* one call of the acpi_get_devices callback for the fan device d; the
\* set of outcomes [gb, added]
galaxybook_add_fan(g, d, fans) ==
  IF acpi4_fan_device(d) THEN {[gb |-> g, added |-> 0]}
  ELSE IF g.fans_count >= MAX_FAN_COUNT THEN {[gb |-> g, added |-> 0]}
  ELSE
    LET n == g.fans_count
        fan == [g.fans[n] EXCEPT !.supports_fst = fan_supports_fst(d, fans)]
        slot(f) == [g EXCEPT !.fans[n] = f]
        add(f) == { [gb |-> [g EXCEPT !.fans[n] = [f EXCEPT !.attr = a],
                                      !.fans_count = n + 1],
                     added |-> 1] : a \in BOOLEAN }
    IN  IF ~fan.supports_fst
        THEN IF fans_field_in_use(g)
             THEN {[gb |-> slot(fan), added |-> 0]}
             ELSE UNION { IF r.err # 0
                          THEN {[gb |-> slot(r.fan), added |-> 0]}
                          ELSE add(r.fan)
                          : r \in fan_speed_list_init(d, fan, fans) }
        ELSE add(fan)

\* the largest number of fan devices in the namespace
MaxFanDevices == 3

\* acpi_get_devices calls galaxybook_add_fan for the next fan device
fan_speed_init_add_fan ==
  /\ probe.pc = "fan_speed"
  /\ probe.fan_devices < MaxFanDevices
  /\ \E d \in FanDevices, fans \in FansFields :
       \E o \in galaxybook_add_fan(gb, d, fans) :
         /\ gb' = o.gb
         /\ last' = result("galaxybook_add_fan",
                           [device |-> d, fans_exists |-> fans.exists],
                           0, o.added, <<>>)
  /\ probe' = [probe EXCEPT !.fan_devices = @ + 1]
  /\ UNCHANGED <<fw, prev>>

\* galaxybook_fan_speed_init returns to galaxybook_probe after the last
\* fan device
fan_speed_init_return ==
  /\ probe.pc = "fan_speed"
  /\ \E status \in {AE_OK, AE_ERROR} :
       LET err == IF gb.fans_count = 0 THEN -ENODEV ELSE status
       IN  /\ gb' = [gb EXCEPT !.fan_speed = (err = 0)]
           /\ last' = result("galaxybook_fan_speed_init", 0, err, 0, <<>>)
  /\ probe' = [probe EXCEPT !.pc = "loaded"]
  /\ UNCHANGED <<fw, prev>>

\* a read of the fan_speed_rpm file of a fan that has it
fan_speed_rpm_show ==
  /\ probe.pc = "loaded"
  /\ \E n \in 0..(gb.fans_count - 1), fst \in FstResponses, fans \in FansFields :
       /\ gb.fans[n].attr
       /\ \E r \in fan_speed_get(gb.fans[n], [fst |-> fst], fans) :
            last' = result("fan_speed_rpm_show", [fan |-> n, level |-> r.level],
                           r.err, r.speed, <<>>)
  /\ UNCHANGED <<fw, gb, probe, prev>>

FanInit ==
  /\ fw = fw0
  /\ gb = gb0
  /\ probe = [probe0 EXCEPT !.pc = "fan_speed", !.galaxybook_ptr = "galaxybook"]
  /\ last = idle
  /\ prev = idle

FanNext ==
  \/ (last.op = "idle" /\ fan_speed_init_add_fan)
  \/ (last.op = "idle" /\ fan_speed_init_return)
  \/ (last.op = "idle" /\ fan_speed_rpm_show)
  \/ caller_return

SpecFan == FanInit /\ [][FanNext]_vars

\* the fans that are registered: the slots below fans_count
RegisteredFans == 0..(gb.fans_count - 1)

\* the last call of galaxybook_add_fan has added a fan that reads FANS
TableFanAdded ==
  /\ last.op = "galaxybook_add_fan"
  /\ last.val = 1
  /\ ~gb.fans[gb.fans_count - 1].supports_fst

\* the FANT table of the device of the last call, and the fan it added
LastTable == last.arg.device.fant.obj.elements
LastFan == gb.fans[gb.fans_count - 1]

\* the device of the last call is one that galaxybook_add_fan takes to
\* read its speed from FANS
LastClassifiedTable ==
  /\ ~acpi4_fan_device(last.arg.device)
  /\ ~fan_supports_fst(last.arg.device, [exists |-> last.arg.fans_exists])

\* C11: a fan device that has all four of _FIF, _FPS, _FSL and _FST is
\* skipped: the call leaves the fan list and the fan count as they were.
C11_StandardFanSkipped ==
  [][(/\ last'.op = "galaxybook_add_fan"
      /\ last.op = "idle"
      /\ StandardFanMethods \subseteq last'.arg.device.methods)
     => (/\ gb'.fans = gb.fans
         /\ gb'.fans_count = gb.fans_count
         /\ last'.val = 0)]_vars

\* a device with all four methods and a working _FST has been visited
\* after one fan was added, and the count is still one
C11_Witness ==
  /\ last.op = "galaxybook_add_fan"
  /\ StandardFanMethods \subseteq last.arg.device.methods
  /\ fan_speed_get_fst(last.arg.device).err = 0
  /\ last.val = 0
  /\ probe.fan_devices = 2
  /\ gb.fans_count = 1

\* C12: a table-derived fan whose FANT table has N >= 1 integer entries has
\* a speed table of N + 2 entries: entry 0 is 0, entry i is table[i-1] + 10
\* for 1 <= i <= N, and one more entry follows at index N + 1.
C12_SpeedTableShape ==
  TableFanAdded
  => /\ Len(LastTable) >= 1
     /\ LastFan.fan_speeds_count = Len(LastTable) + 2
     /\ DOMAIN LastFan.fan_speeds = 0..(Len(LastTable) + 1)
     /\ LastFan.fan_speeds[0] = 0
     /\ \A i \in 1..Len(LastTable) :
          LastFan.fan_speeds[i] = LastTable[i].value + 10

\* the table <<3500, 4730>> has given the speed table 0, 3510, 4740, 5740
C12_Witness ==
  /\ TableFanAdded
  /\ LastTable = <<acpi_integer(3500), acpi_integer(4730)>>
  /\ LastFan.fan_speeds = (0 :> 0 @@ 1 :> 3510 @@ 2 :> 4740 @@ 3 :> 5740)
  /\ LastFan.fan_speeds_count = 4

\* C13: for every FANT table, in any order of its values, the top entry of
\* the speed table is the highest corrected table value plus 1000.
C13_TopIsHighestPlus1000 ==
  TableFanAdded
  => \E h \in 1..Len(LastTable) :
       /\ \A i \in 1..Len(LastTable) : LastTable[i].value <= LastTable[h].value
       /\ LastFan.fan_speeds[Len(LastTable) + 1] = LastTable[h].value + 10 + 1000

\* C14: at most one registered fan reads FANS, and a call for a further
\* device that would read FANS adds no fan.
C14_OneTableFan ==
  /\ Cardinality({i \in RegisteredFans : ~gb.fans[i].supports_fst}) <= 1
  /\ (/\ last.op = "galaxybook_add_fan"
      /\ LastClassifiedTable
      /\ \E i \in 0..(gb.fans_count - last.val - 1) : ~gb.fans[i].supports_fst)
     => last.val = 0

\* a second device with a good FANT table and no working _FST has been
\* visited while fan 0 reads FANS, and it has not been added
C14_Witness ==
  /\ last.op = "galaxybook_add_fan"
  /\ LastClassifiedTable
  /\ last.arg.device.fant = acpi_evaluated(acpi_package(<<acpi_integer(3500)>>))
  /\ last.val = 0
  /\ gb.fans_count = 1
  /\ ~gb.fans[0].supports_fst
  /\ gb.fans[0].fan_speeds_count = 3

(***************************************************************************)
(* Boolean settings: start on lid open, USB charge, allow recording        *)
(***************************************************************************)
\* the attributes in the array galaxybook_attrs
attr_names(seq) == {seq[i] : i \in DOMAIN seq}

\* the conversion of a byte to bool
to_bool(x) == IF x # 0 THEN 1 ELSE 0

start_on_lid_open_acpi_set(g, f, value) ==
  { outcome(o.err, 0, g, o.fw, <<o.tx>>)
    : o \in transact(ACPI_METHOD_SETTINGS,
                     settings_request(SASB_POWER_MANAGEMENT, GUNM_POWER_MANAGEMENT,
                                      <<GUDS_START_ON_LID_OPEN,
                                        GUDS_START_ON_LID_OPEN_SET, value>>),
                     SAWB_LEN_SETTINGS, f) }

start_on_lid_open_acpi_get(g, f) ==
  { IF o.err # 0
    THEN outcome(o.err, 0, g, o.fw, <<o.tx>>)
    ELSE outcome(0, to_bool(o.ret.guds[2]), g, o.fw, <<o.tx>>)
    : o \in transact(ACPI_METHOD_SETTINGS,
                     settings_request(SASB_POWER_MANAGEMENT, GUNM_POWER_MANAGEMENT,
                                      <<GUDS_START_ON_LID_OPEN,
                                        GUDS_START_ON_LID_OPEN_GET, 0>>),
                     SAWB_LEN_SETTINGS, f) }

usb_charge_acpi_set(g, f, value) ==
  { outcome(o.err, 0, g, o.fw, <<o.tx>>)
    : o \in transact(ACPI_METHOD_SETTINGS,
                     settings_request(SASB_USB_CHARGE_SET,
                                      IF value # 0 THEN GUNM_USB_CHARGE_ON
                                                   ELSE GUNM_USB_CHARGE_OFF,
                                      <<0, 0, 0>>),
                     SAWB_LEN_SETTINGS, f) }

usb_charge_acpi_get(g, f) ==
  { IF o.err # 0
    THEN outcome(o.err, 0, g, o.fw, <<o.tx>>)
    ELSE outcome(0, to_bool(o.ret.gunm), g, o.fw, <<o.tx>>)
    : o \in transact(ACPI_METHOD_SETTINGS,
                     settings_request(SASB_USB_CHARGE_GET, GUNM_USB_CHARGE_GET,
                                      <<0, 0, 0>>),
                     SAWB_LEN_SETTINGS, f) }

\* allow_recording_acpi_set with the echoed value compared against the
\* requested one
allow_recording_acpi_set_compared(g, f, value) ==
  { outcome(IF o.err # 0 THEN o.err
            ELSE IF o.ret.guds[1] # value THEN -EIO ELSE 0, 0, g, o.fw, <<o.tx>>)
    : o \in transact(ACPI_METHOD_SETTINGS,
                     settings_request(SASB_ALLOW_RECORDING, GUNM_SET, <<value, 0, 0>>),
                     SAWB_LEN_SETTINGS, f) }

allow_recording_acpi_set(g, f, value) ==
  { outcome(o.err, 0, g, o.fw, <<o.tx>>)
    : o \in transact(ACPI_METHOD_SETTINGS,
                     settings_request(SASB_ALLOW_RECORDING, GUNM_SET, <<value, 0, 0>>),
                     SAWB_LEN_SETTINGS, f) }

allow_recording_acpi_get(g, f) ==
  { IF o.err # 0
    THEN outcome(o.err, 0, g, o.fw, <<o.tx>>)
    ELSE outcome(0, to_bool(o.ret.gunm), g, o.fw, <<o.tx>>)
    : o \in transact(ACPI_METHOD_SETTINGS,
                     settings_request(SASB_ALLOW_RECORDING, GUNM_GET, <<0, 0, 0>>),
                     SAWB_LEN_SETTINGS, f) }

\* the texts written to a boolean attribute
BoolTexts == {"1", "0", "on", "off", "yes", "no", "2", ""}

\* kstrtobool: the value of the text, or -EINVAL
kstrtobool(text) ==
  CASE text \in {"1", "on", "yes"} -> [err |-> 0, value |-> 1]
    [] text \in {"0", "off", "no"} -> [err |-> 0, value |-> 0]
    [] OTHER -> [err |-> -EINVAL, value |-> 0]

\* the set function of the boolean attribute `name`
bool_attr_acpi_set(name, g, f, value) ==
  CASE name = "start_on_lid_open" -> start_on_lid_open_acpi_set(g, f, value)
    [] name = "usb_charge" -> usb_charge_acpi_set(g, f, value)
    [] name = "allow_recording" -> allow_recording_acpi_set(g, f, value)

\* the get function of the boolean attribute `name`
bool_attr_acpi_get(name, g, f) ==
  CASE name = "start_on_lid_open" -> start_on_lid_open_acpi_get(g, f)
    [] name = "usb_charge" -> usb_charge_acpi_get(g, f)
    [] name = "allow_recording" -> allow_recording_acpi_get(g, f)

BoolAttrs == {"start_on_lid_open", "usb_charge", "allow_recording"}

\* start_on_lid_open_store, usb_charge_store, allow_recording_store: the
\* number of characters written, or the error
bool_attr_store ==
  \E name \in BoolAttrs, text \in BoolTexts :
    LET count == Len(text)
        parsed == kstrtobool(text)
    IN  IF count = 0 \/ parsed.err # 0
        THEN /\ last' = result(name \o "_store", [text |-> text, value |-> 0],
                               -EINVAL, 0, <<>>)
             /\ UNCHANGED <<fw, gb, probe, prev>>
        ELSE \E o \in bool_attr_acpi_set(name, gb, fw, parsed.value) :
               /\ fw' = o.fw
               /\ last' = result(name \o "_store", [text |-> text, value |-> parsed.value],
                                 IF o.err # 0 THEN o.err ELSE count, 0, o.txs)
               /\ UNCHANGED <<gb, probe, prev>>

\* start_on_lid_open_show, usb_charge_show, allow_recording_show
bool_attr_show ==
  \E name \in BoolAttrs :
    \E o \in bool_attr_acpi_get(name, gb, fw) :
      /\ fw' = o.fw
      /\ last' = result(name \o "_show", 0, o.err, o.val, o.txs)
      /\ UNCHANGED <<gb, probe, prev>>

SettingsInit ==
  /\ fw \in {[fw0 EXCEPT !.lid = l, !.usb = u, !.rec = r] :
               l \in {0, 1}, u \in {0, 1}, r \in {0, 1}}
  /\ gb = gb0
  /\ probe = [probe0 EXCEPT !.pc = "loaded", !.galaxybook_ptr = "galaxybook"]
  /\ last = idle
  /\ prev = idle

SettingsNext ==
  \/ (last.op = "idle" /\ bool_attr_store)
  \/ (last.op = "idle" /\ bool_attr_show)
  \/ caller_return

SpecSettings == SettingsInit /\ [][SettingsNext]_vars

\* the byte of a set's frame that carries the value
set_value_byte(name, frame) ==
  CASE name = "start_on_lid_open_store" -> frame.guds[3]
    [] name = "usb_charge_store" -> frame.gunm
    [] name = "allow_recording_store" -> frame.guds[1]

StoreOps == {"start_on_lid_open_store", "usb_charge_store", "allow_recording_store"}

\* C20: a set of start_on_lid_open, usb_charge or allow_recording whose
\* transaction the executor accepts returns success (the store returns the
\* number of characters written) whatever value the response carries, the
\* other value than the requested one included.
C20_SetIgnoresEcho ==
  (last.op \in StoreOps /\ Len(last.txs) = 1 /\ last.txs[1].err = 0)
    => /\ last.err = Len(last.arg.text)
       /\ last.err > 0

C20_Witness ==
  /\ last.op \in StoreOps
  /\ Len(last.txs) = 1
  /\ last.txs[1].kind = "refused"
  /\ last.txs[1].err = 0
  /\ set_value_byte(last.op, last.txs[1].ret) # set_value_byte(last.op, last.txs[1].req)
  /\ last.err = Len(last.arg.text)

(***************************************************************************)
(* Hotkeys: the scancode filter and the deferred work items                *)
(***************************************************************************)
\* schedule_work: an initialised work item is pending afterwards; one that
\* is already pending stays queued once.  A work item that INIT_WORK has
\* not set up has no function to run: queueing it is undefined, and the
\* item is "corrupt" from then on.
schedule_work(work) ==
  IF work \in {"zeroed", "corrupt"} THEN "corrupt" ELSE "pending"

\* cancel_work_sync: the work item is neither pending nor running afterwards
cancel_work_sync(work) ==
  IF work \in {"zeroed", "corrupt"} THEN work ELSE "idle"

\* the bytes the keyboard controller delivers: the extended prefix, the
\* four hotkey codes and one other key
FilterBytes ==
  {I8042_PREFIX_EXTENDED, GB_KEY_KBD_BACKLIGHT_KEYDOWN, GB_KEY_KBD_BACKLIGHT_KEYUP,
   GB_KEY_ALLOW_RECORDING_KEYDOWN, GB_KEY_ALLOW_RECORDING_KEYUP, 30}

\* the status bytes: keyboard port, auxiliary port
FilterStatus == {0, I8042_STR_AUXDATA}

\* the filter with the keydown code acted on as well
filter_schedules_on_keydown(g, data) ==
  CASE data \in {GB_KEY_KBD_BACKLIGHT_KEYUP, GB_KEY_KBD_BACKLIGHT_KEYDOWN} /\ g.kbd_backlight ->
         [gb |-> [g EXCEPT !.kbd_backlight_hotkey_work = schedule_work(@)], scheduled |-> 1]
    [] data = GB_KEY_ALLOW_RECORDING_KEYUP /\ g.allow_recording ->
         [gb |-> [g EXCEPT !.allow_recording_hotkey_work = schedule_work(@)], scheduled |-> 1]
    [] OTHER -> [gb |-> g, scheduled |-> 0]

\* the switch on the byte that follows the extended prefix: the driver
\* state after it and the number of schedule_work calls
filter_schedules(g, data) ==
  CASE data = GB_KEY_KBD_BACKLIGHT_KEYUP /\ g.kbd_backlight ->
         [gb |-> [g EXCEPT !.kbd_backlight_hotkey_work = schedule_work(@)], scheduled |-> 1]
    [] data = GB_KEY_ALLOW_RECORDING_KEYUP /\ g.allow_recording ->
         [gb |-> [g EXCEPT !.allow_recording_hotkey_work = schedule_work(@)], scheduled |-> 1]
    [] OTHER -> [gb |-> g, scheduled |-> 0]

\* the prefix state left standing after the byte that follows the prefix
extended_kept(g) == g

\* extended = false, on the byte that follows the prefix
extended_cleared(g) == [g EXCEPT !.extended = FALSE]

\* The filter is called for every byte; it never swallows the byte
\* (returns false).  val is the number of schedule_work calls it made.
galaxybook_i8042_filter ==
  \E data \in FilterBytes, str \in FilterStatus :
    LET called(g, f, n) ==
          /\ gb' = g
          /\ fw' = f
          /\ last' = result("galaxybook_i8042_filter", [data |-> data, str |-> str], 0, n, <<>>)
          /\ UNCHANGED <<probe, prev>>
    IN  /\ gb.i8042_filter_installed
        /\ IF str \div I8042_STR_AUXDATA % 2 = 1
           THEN called(gb, fw, 0)
           ELSE IF data = I8042_PREFIX_EXTENDED
           THEN called([gb EXCEPT !.extended = TRUE], [fw EXCEPT !.i8042 = data], 0)
           ELSE IF gb.extended
           THEN LET s == filter_schedules(extended_cleared(gb), data)
                IN  called(s.gb, [fw EXCEPT !.i8042 = data], s.scheduled)
           ELSE called(gb, [fw EXCEPT !.i8042 = data], 0)

\* the level the brightness hotkey asks for, without the wrap to 0
kbd_backlight_hotkey_level_unwrapped(g) == g.brightness + 1

\* the level the brightness hotkey asks for
kbd_backlight_hotkey_level(g) ==
  IF g.brightness < KBD_BACKLIGHT_MAX_BRIGHTNESS THEN g.brightness + 1 ELSE 0

\* The work function runs once the work item is taken off the queue; arg
\* is the LED's brightness before, val the one after.
galaxybook_kbd_backlight_hotkey_work ==
  /\ gb.kbd_backlight_hotkey_work = "pending"
  /\ LET g == [gb EXCEPT !.kbd_backlight_hotkey_work = "idle"]
     IN  \E o \in kbd_backlight_acpi_set(g, fw, kbd_backlight_hotkey_level(g)) :
           /\ gb' = o.gb
           /\ fw' = o.fw
           /\ last' = result("galaxybook_kbd_backlight_hotkey_work", gb.brightness,
                             o.err, o.gb.brightness, o.txs)
           /\ UNCHANGED <<probe, prev>>

\* The value read is not looked at when the get failed: `value` is then
\* uninitialised and either boolean is written.
galaxybook_allow_recording_hotkey_work ==
  /\ gb.allow_recording_hotkey_work = "pending"
  /\ LET g == [gb EXCEPT !.allow_recording_hotkey_work = "idle"]
     IN  \E o1 \in allow_recording_acpi_get(g, fw) :
           \E value \in (IF o1.err = 0 THEN {o1.val} ELSE {0, 1}) :
             \E o2 \in allow_recording_acpi_set(o1.gb, o1.fw, 1 - value) :
               /\ gb' = o2.gb
               /\ fw' = o2.fw
               /\ last' = result("galaxybook_allow_recording_hotkey_work", value,
                                 o2.err, 1 - value, o1.txs \o o2.txs)
               /\ UNCHANGED <<probe, prev>>

\* A loaded driver with the filter installed: at least one of the two
\* keyboard hotkey features is on, and the work item of each feature that
\* is on has been initialised.  The LED's brightness is the level read
\* when the LED was registered, or 0 when that read failed.
HotkeyInit ==
  /\ fw \in {[fw0 EXCEPT !.kbd = b, !.rec = r] :
               b \in 0..KBD_BACKLIGHT_MAX_BRIGHTNESS, r \in {0, 1}}
  /\ gb \in {[gb0 EXCEPT !.brightness = b, !.kbd_backlight = k, !.allow_recording = a,
                         !.i8042_filter_installed = TRUE,
                         !.kbd_backlight_hotkey_work = IF k THEN "idle" ELSE "zeroed",
                         !.allow_recording_hotkey_work = IF a THEN "idle" ELSE "zeroed"] :
               b \in {0, fw.kbd}, k \in BOOLEAN, a \in BOOLEAN}
  /\ gb.kbd_backlight \/ gb.allow_recording
  /\ probe = [probe0 EXCEPT !.pc = "loaded", !.galaxybook_ptr = "galaxybook"]
  /\ last = idle
  /\ prev = idle

HotkeyNext ==
  \/ (last.op = "idle" /\ galaxybook_i8042_filter)
  \/ (last.op = "idle" /\ galaxybook_kbd_backlight_hotkey_work)
  \/ (last.op = "idle" /\ galaxybook_allow_recording_hotkey_work)
  \/ caller_return

SpecHotkey == HotkeyInit /\ [][HotkeyNext]_vars

\* the filter has just been called with a byte from the keyboard port
FilterStep ==
  /\ last.op = "idle"
  /\ last'.op = "galaxybook_i8042_filter"
  /\ last'.arg.str = 0

\* C15: after the extended prefix 0xe0 on the keyboard port, the backlight
\* keydown code 0x2c schedules nothing and leaves every work item as it
\* was; the backlight keyup code 0xac, with kbd_backlight on, makes exactly
\* one schedule_work call, which leaves the brightness work item pending
\* and the other work items as they were.
C15_KeyupSchedulesOnce ==
  [][(FilterStep /\ fw.i8042 = I8042_PREFIX_EXTENDED)
       => /\ gb.extended
          /\ (last'.arg.data = GB_KEY_KBD_BACKLIGHT_KEYDOWN
                => (last'.val = 0 /\ gb' = [gb EXCEPT !.extended = FALSE]))
          /\ (last'.arg.data = GB_KEY_KBD_BACKLIGHT_KEYUP /\ gb.kbd_backlight
                => /\ last'.val = 1
                   /\ gb' = [gb EXCEPT !.extended = FALSE,
                                       !.kbd_backlight_hotkey_work = "pending"])]_vars

\* the keyup code has followed the prefix while the work item was idle,
\* and the work item is pending now
C15_Witness ==
  /\ last.op = "galaxybook_i8042_filter"
  /\ last.arg = [data |-> GB_KEY_KBD_BACKLIGHT_KEYUP, str |-> 0]
  /\ last.val = 1
  /\ gb.kbd_backlight_hotkey_work = "pending"
  /\ gb.allow_recording_hotkey_work # "pending"

\* the levels that n successive runs of the brightness work function set,
\* starting from the LED brightness b, when every set is accepted
RECURSIVE kbd_backlight_hotkey_levels(_, _)
kbd_backlight_hotkey_levels(b, n) ==
  IF n = 0 THEN <<>>
  ELSE LET next == kbd_backlight_hotkey_level([gb0 EXCEPT !.brightness = b])
       IN  <<next>> \o kbd_backlight_hotkey_levels(next, n - 1)

\* C16: a run of the brightness work function sends one set whose level is
\* the LED's brightness plus one when that is below 3 and 0 when it is 3,
\* and when the set is accepted the LED's brightness is that level (and so
\* is the device's, when the firmware stored it); from any level, four
\* accepted runs visit the levels in the order 0, 1, 2, 3, 0, ... and end
\* on the starting level.
C16_BrightnessCycle ==
  /\ \A b \in 0..KBD_BACKLIGHT_MAX_BRIGHTNESS :
       kbd_backlight_hotkey_levels(b, 4) =
         <<(b + 1) % 4, (b + 2) % 4, (b + 3) % 4, b>>
  /\ last.op = "galaxybook_kbd_backlight_hotkey_work"
       => LET level == IF last.arg < 3 THEN last.arg + 1 ELSE 0
          IN  /\ Len(last.txs) = 1
              /\ last.txs[1].req = settings_request(SASB_KBD_BACKLIGHT, GUNM_SET,
                                                    <<level, 0, 0>>)
              /\ last.err = 0 => (last.val = level /\ gb.brightness = level)
              /\ last.err # 0 => gb.brightness = last.arg
              /\ Honest(last) => fw.kbd = level

\* the work function has run at level 3 and the level is 0 now
C16_Witness ==
  /\ last.op = "galaxybook_kbd_backlight_hotkey_work"
  /\ last.arg = KBD_BACKLIGHT_MAX_BRIGHTNESS
  /\ last.err = 0
  /\ Honest(last)
  /\ gb.brightness = 0
  /\ fw.kbd = 0

(***************************************************************************)
(* Performance-mode hotkey: the ACPI notification and its work item        *)
(***************************************************************************)
\* the slots of the table that hold a mode
mapped_profiles(modes) == {i \in Profiles : modes[i] # PERFORMANCE_MODE_UNKNOWN}

\* the lowest slot of a non-empty set of slots
first_profile(slots) == CHOOSE i \in slots : \A j \in slots : i <= j

\* the two loops without the second one
performance_mode_hotkey_profile_no_wrap(modes, current_performance_mode) ==
  LET current_profile == profile_performance_mode(modes, current_performance_mode) + 1
      upwards == {i \in mapped_profiles(modes) : i >= current_profile}
  IN  IF upwards # {} THEN first_profile(upwards) ELSE -1

\* The two loops of the work function: the first mapped slot from
\* current_profile + 1 upwards, else the first mapped slot from 0, else
\* none (-1).
performance_mode_hotkey_profile(modes, current_performance_mode) ==
  LET current_profile == profile_performance_mode(modes, current_performance_mode) + 1
      upwards == {i \in mapped_profiles(modes) : i >= current_profile}
  IN  IF upwards # {} THEN first_profile(upwards)
      ELSE IF mapped_profiles(modes) # {} THEN first_profile(mapped_profiles(modes))
      ELSE -1

\* The work function as built for kernels before 6.10 (from 6.10 on it
\* calls the kernel's platform_profile_cycle).  The codes returned by the
\* get and by the set are dropped; after a failed get
\* current_performance_mode is uninitialised.  arg is the mode taken as
\* current, val the slot set (-1: none).
galaxybook_performance_mode_hotkey_work ==
  /\ gb.performance_mode_hotkey_work = "pending"
  /\ LET g == [gb EXCEPT !.performance_mode_hotkey_work = "idle"]
     IN  IF g.profile_performance_modes = <<>>
         THEN /\ gb' = g
              /\ last' = result("galaxybook_performance_mode_hotkey_work", 0, 0, -1, <<>>)
              /\ UNCHANGED <<fw, probe, prev>>
         ELSE \E o \in performance_mode_acpi_get(g, fw) :
                \E current \in (IF o.err = 0 THEN {o.val} ELSE UninitBytes) :
                  LET i == performance_mode_hotkey_profile(g.profile_performance_modes,
                                                           current)
                  IN  IF i = -1
                      THEN /\ gb' = g
                           /\ fw' = o.fw
                           /\ last' = result("galaxybook_performance_mode_hotkey_work",
                                             current, 0, -1, o.txs)
                           /\ UNCHANGED <<probe, prev>>
                      ELSE \E d \in galaxybook_platform_profile_set(g, o.fw, i) :
                             /\ gb' = g
                             /\ fw' = d.fw
                             /\ last' = result("galaxybook_performance_mode_hotkey_work",
                                               current, 0, i, o.txs \o d.txs)
                             /\ UNCHANGED <<probe, prev>>

\* the events the firmware notifies: the performance-mode hotkey, the
\* battery state change
NotifyEvents == {ACPI_NOTIFY_HOTKEY_PERFORMANCE_MODE, ACPI_NOTIFY_BATTERY_STATE_CHANGED}

\* the handler's effect on the driver state and its schedule_work calls
acpi_notify(g, event) ==
  IF event = ACPI_NOTIFY_HOTKEY_PERFORMANCE_MODE /\ g.performance_mode
  THEN [gb |-> [g EXCEPT !.performance_mode_hotkey_work = schedule_work(@)], scheduled |-> 1]
  ELSE [gb |-> g, scheduled |-> 0]

\* The notify handler; val is the number of schedule_work calls.  The
\* event is then passed to the input device.
galaxybook_acpi_notify ==
  /\ gb.acpi_notify_handler
  /\ \E event \in NotifyEvents :
       LET n == acpi_notify(gb, event)
       IN  /\ gb' = n.gb
           /\ last' = result("galaxybook_acpi_notify", event, 0, n.scheduled, <<>>)
  /\ UNCHANGED <<fw, probe, prev>>

\* the response frame that lists the modes l
list_frame(l) ==
  [performance_request(SUBN_PERFORMANCE_MODE_LIST, 0)
     EXCEPT !.rflg = RFLG_SUCCESS,
            !.iob = [i \in 0..9 |-> IF i = 0 THEN Len(l)
                                    ELSE IF i <= Len(l) THEN l[i] ELSE 0]]

\* the tables galaxybook_profile_init ends with when it succeeds
ProfileTables ==
  {m \in {supported_performance_modes(list_frame(l)) : l \in ModeLists} : m.err = 0}

\* A loaded driver with the platform profile registered, the notify
\* handler installed, notifications enabled and the work item initialised.
\* The device's mode is any: the firmware changes it on its own.
CycleInit ==
  /\ fw \in {[fw0 EXCEPT !.mode = m] : m \in UninitBytes}
  /\ gb \in {[gb0 EXCEPT !.profile_performance_modes = m.modes, !.choices = m.choices,
                         !.profile_registered = TRUE, !.acpi_notify_handler = TRUE,
                         !.performance_mode_hotkey_work = "idle"] : m \in ProfileTables}
  /\ probe = [probe0 EXCEPT !.pc = "loaded", !.galaxybook_ptr = "galaxybook"]
  /\ last = idle
  /\ prev = idle

CycleNext ==
  \/ (last.op = "idle" /\ galaxybook_acpi_notify)
  \/ (last.op = "idle" /\ galaxybook_performance_mode_hotkey_work)
  \/ caller_return

SpecCycle == CycleInit /\ [][CycleNext]_vars

\* the slot after c in slot order among the mapped ones, the lowest mapped
\* slot when c is the highest
NextMapped(modes, c) ==
  LET above == {i \in mapped_profiles(modes) : i > c}
  IN  IF above # {} THEN first_profile(above) ELSE first_profile(mapped_profiles(modes))

\* no two slots of the table hold the same mode
DistinctModes(modes) ==
  \A i, j \in mapped_profiles(modes) : modes[i] = modes[j] => i = j

\* the slots that n presses set one after the other, starting with the
\* device in the mode of slot c, the firmware storing each mode set and
\* reporting it on the next read
RECURSIVE hotkey_presses(_, _, _)
hotkey_presses(modes, c, n) ==
  IF n = 0 THEN <<>>
  ELSE LET i == performance_mode_hotkey_profile(modes, modes[c])
       IN  <<i>> \o hotkey_presses(modes, i, n - 1)

profile_init_outcomes ==
  { [err |-> -ENODEV, registered |-> FALSE],
    [err |-> -EIO, registered |-> TRUE],
    [err |-> 0, registered |-> TRUE] }

probe_profile_init ==
  /\ probe.pc = "profile"
  /\ IF gb.performance_mode
     THEN \E o \in profile_init_outcomes :
            /\ gb' = [gb EXCEPT !.profile_registered = o.registered,
                                !.performance_mode = (o.err = 0)]
            /\ probe' = initialised([probe EXCEPT !.pc = "battery_threshold"],
                                    "profile", o.err)
            /\ last' = result("galaxybook_profile_init", 0, o.err, 0, <<>>)
     ELSE /\ gb' = gb
          /\ probe' = [probe EXCEPT !.pc = "battery_threshold"]
          /\ last' = result("performance_mode is disabled", 0, 0, 0, <<>>)
  /\ UNCHANGED <<fw, prev>>

galaxybook_battery_threshold_init(g, f) ==
  { IF o.err # 0 THEN outcome(o.err, 0, g, o.fw, o.txs)
    ELSE outcome(0, 0, [g EXCEPT !.battery_hook = TRUE], o.fw, o.txs)
    : o \in charge_control_end_threshold_acpi_get(g, f) }

probe_battery_threshold_init ==
  /\ probe.pc = "battery_threshold"
  /\ IF gb.battery_threshold
     THEN \E o \in galaxybook_battery_threshold_init(gb, fw) :
            /\ gb' = [o.gb EXCEPT !.battery_threshold = (o.err = 0)]
            /\ fw' = o.fw
            /\ probe' = initialised([probe EXCEPT !.pc = "device_attrs"],
                                    "battery_threshold", o.err)
            /\ last' = result("galaxybook_battery_threshold_init", 0, o.err, 0, o.txs)
     ELSE /\ UNCHANGED <<gb, fw>>
          /\ probe' = [probe EXCEPT !.pc = "device_attrs"]
          /\ last' = result("battery_threshold is disabled", 0, 0, 0, <<>>)
  /\ UNCHANGED prev

\* the codes device_add_group, led_classdev_register_ext,
\* devm_hwmon_device_register_with_info, i8042_install_filter and
\* input_register_device return
RegisterCodes == {0, -ENOMEM}

\* galaxybook_device_attrs_init: each attribute whose value can be read is
\* put into galaxybook_attrs, then the group is added.  err is the code
\* returned, read the attributes whose read succeeded.
galaxybook_device_attrs_init(g, f) ==
  UNION {
    LET a1 == IF lid.err = 0 THEN <<"start_on_lid_open">> ELSE <<>>
        a2 == IF usb.err = 0 THEN a1 \o <<"usb_charge">> ELSE a1
        added(attrs, g2, f2) ==
          { [err |-> add, fw |-> f2, read |-> attr_names(attrs),
             gb |-> [g2 EXCEPT !.attrs = attrs, !.attrs_group = (add = 0)]]
            : add \in RegisterCodes }
    IN  IF ~g.allow_recording
        THEN added(a2, g, usb.fw)
        ELSE UNION {
               IF en.err # 0
               THEN { [err |-> 0, fw |-> en.fw, read |-> attr_names(a2),
                       gb |-> [g EXCEPT !.attrs = a2, !.allow_recording = FALSE]] }
               ELSE UNION {
                      IF rec.err # 0
                      THEN added(a2, [g EXCEPT !.allow_recording = FALSE], rec.fw)
                      ELSE added(a2 \o <<"allow_recording">>, g, rec.fw)
                      : rec \in allow_recording_acpi_get(g, en.fw) }
               : en \in galaxybook_enable_acpi_feature(g, usb.fw, SASB_ALLOW_RECORDING) }
    : lid \in start_on_lid_open_acpi_get(g, f),
      usb \in usb_charge_acpi_get(g, f) }

\* the failure of the attributes is logged and nothing else
probe_device_attrs_init ==
  /\ probe.pc = "device_attrs"
  /\ \E o \in galaxybook_device_attrs_init(gb, fw) :
       /\ gb' = o.gb
       /\ fw' = o.fw
       /\ probe' = initialised(
            [probe EXCEPT !.pc = "kbd_backlight",
                          !.succeeded = @ \cup o.read
                                          \cup (IF gb.allow_recording /\ o.gb.allow_recording
                                                THEN {"allow_recording"} ELSE {}),
                          !.failed = @ \cup (IF gb.allow_recording /\ ~o.gb.allow_recording
                                             THEN {"allow_recording"} ELSE {})],
            "device_attrs", o.err)
       /\ last' = result("galaxybook_device_attrs_init", 0, o.err, o.read, <<>>)
  /\ UNCHANGED prev

\* galaxybook_kbd_backlight_init: the handshake, one read, the LED struct
\* set up anew (brightness 0), and the registration, during which the LED
\* core reads the brightness through brightness_get
galaxybook_kbd_backlight_init(g, f) ==
  UNION {
    IF en.err # 0 THEN {outcome(en.err, 0, g, en.fw, en.txs)}
    ELSE UNION {
           IF get.err # 0 THEN {outcome(get.err, 0, g, get.fw, en.txs \o get.txs)}
           ELSE {outcome(-ENOMEM, 0, [g EXCEPT !.brightness = 0], get.fw,
                         en.txs \o get.txs)}
                \cup { outcome(0, 0, [upd.gb EXCEPT !.led = TRUE], upd.fw,
                               en.txs \o get.txs \o upd.txs)
                       : upd \in kbd_backlight_acpi_get([g EXCEPT !.brightness = 0],
                                                        get.fw) }
           : get \in kbd_backlight_acpi_get(g, en.fw) }
    : en \in galaxybook_enable_acpi_feature(g, f, SASB_KBD_BACKLIGHT) }

probe_kbd_backlight_init ==
  /\ probe.pc = "kbd_backlight"
  /\ IF gb.kbd_backlight
     THEN \E o \in galaxybook_kbd_backlight_init(gb, fw) :
            /\ gb' = [o.gb EXCEPT !.kbd_backlight = (o.err = 0)]
            /\ fw' = o.fw
            /\ probe' = initialised([probe EXCEPT !.pc = "fan"], "kbd_backlight", o.err)
            /\ last' = result("galaxybook_kbd_backlight_init", 0, o.err, 0, <<>>)
     ELSE /\ UNCHANGED <<gb, fw>>
          /\ probe' = [probe EXCEPT !.pc = "fan"]
          /\ last' = result("kbd_backlight is disabled", 0, 0, 0, <<>>)
  /\ UNCHANGED prev

\* galaxybook_fan_speed_init as galaxybook_probe sees it (SpecFan takes it
\* device by device), then galaxybook_hwmon_init when it succeeded
probe_fan_speed_init ==
  /\ probe.pc = "fan"
  /\ IF gb.fan_speed
     THEN \E err \in {0, -ENODEV}, hwmon \in RegisterCodes :
            /\ gb' = [gb EXCEPT !.fan_speed = (err = 0),
                                !.hwmon = (err = 0 /\ hwmon = 0)]
            /\ probe' = IF err # 0
                        THEN initialised([probe EXCEPT !.pc = "i8042_filter"],
                                         "fan_speed", err)
                        ELSE initialised(initialised([probe EXCEPT !.pc = "i8042_filter"],
                                                     "fan_speed", 0), "hwmon", hwmon)
            /\ last' = result("galaxybook_fan_speed_init", 0, err, hwmon, <<>>)
     ELSE /\ gb' = gb
          /\ probe' = [probe EXCEPT !.pc = "i8042_filter"]
          /\ last' = result("fan_speed is disabled", 0, 0, 0, <<>>)
  /\ UNCHANGED <<fw, prev>>

\* galaxybook_probe: the key filter and the work items of its two hotkeys
probe_i8042_filter ==
  /\ probe.pc = "i8042_filter"
  /\ LET flag == gb.i8042_filter /\ (gb.kbd_backlight \/ gb.allow_recording)
         g == [gb EXCEPT !.i8042_filter = flag,
                         !.kbd_backlight_hotkey_work =
                            IF flag /\ gb.kbd_backlight THEN "idle" ELSE @,
                         !.allow_recording_hotkey_work =
                            IF flag /\ gb.allow_recording THEN "idle" ELSE @]
     IN  IF flag
         THEN \E err \in RegisterCodes :
                /\ gb' = IF err = 0
                         THEN [g EXCEPT !.i8042_filter_installed = TRUE]
                         ELSE [g EXCEPT !.i8042_filter = FALSE,
                                        !.kbd_backlight_hotkey_work = cancel_work_sync(@),
                                        !.allow_recording_hotkey_work = cancel_work_sync(@)]
                /\ probe' = initialised([probe EXCEPT !.pc = "acpi_notify"],
                                        "i8042_filter", err)
                /\ last' = result("i8042_install_filter", 0, err, 0, <<>>)
         ELSE /\ gb' = g
              /\ probe' = [probe EXCEPT !.pc = "acpi_notify"]
              /\ last' = result("i8042_filter is disabled", 0, 0, 0, <<>>)
  /\ UNCHANGED <<fw, prev>>

galaxybook_enable_acpi_notify(g, f) ==
  UNION {
    IF en.err # 0 THEN {outcome(en.err, 0, g, en.fw, en.txs)}
    ELSE { outcome(o.err, 0, g, o.fw, en.txs \o <<o.tx>>)
           : o \in transact(ACPI_METHOD_SETTINGS,
                            settings_request(SASB_NOTIFICATIONS, GUNM_ACPI_NOTIFY_ENABLE,
                                             <<GUDS_ACPI_NOTIFY_ENABLE, 0, 0>>),
                            SAWB_LEN_SETTINGS, en.fw) }
    : en \in galaxybook_enable_acpi_feature(g, f, SASB_NOTIFICATIONS) }

\* galaxybook_probe: the notify handler, the notifications, the work item
\* of the performance-mode hotkey and the input device; the probe then
\* returns 0
probe_acpi_notify ==
  /\ probe.pc = "acpi_notify"
  /\ \/ /\ gb' = gb
        /\ fw' = fw
        /\ probe' = initialised([probe EXCEPT !.pc = "loaded"], "acpi_notify_handler", -EIO)
        /\ last' = result("acpi_install_notify_handler", 0, AE_ERROR, 0, <<>>)
     \/ \E o \in galaxybook_enable_acpi_notify([gb EXCEPT !.acpi_notify_handler = TRUE], fw) :
          /\ fw' = o.fw
          /\ IF o.err # 0
             THEN /\ gb' = o.gb
                  /\ probe' = initialised(
                       initialised([probe EXCEPT !.pc = "loaded"], "acpi_notify_handler", 0),
                       "acpi_notify", o.err)
                  /\ last' = result("galaxybook_enable_acpi_notify", 0, o.err, 0, <<>>)
             ELSE \E input \in RegisterCodes :
                    /\ gb' = [o.gb EXCEPT !.performance_mode_hotkey_work = "idle",
                                          !.input = (input = 0)]
                    /\ probe' = initialised(
                         initialised(
                           initialised([probe EXCEPT !.pc = "loaded"],
                                       "acpi_notify_handler", 0),
                           "acpi_notify", 0),
                         "input", input)
                    /\ last' = result("galaxybook_input_init", 0, input, 0, <<>>)
  /\ UNCHANGED prev

AttachInit ==
  /\ fw \in {[fw0 EXCEPT !.kbd = b] : b \in 0..KBD_BACKLIGHT_MAX_BRIGHTNESS}
  /\ gb \in {[gb0 EXCEPT !.performance_mode = p, !.battery_threshold = t,
                         !.kbd_backlight = k, !.allow_recording = a,
                         !.fan_speed = s, !.i8042_filter = i]
               : p \in BOOLEAN, t \in BOOLEAN, k \in BOOLEAN, a \in BOOLEAN,
                 s \in BOOLEAN, i \in BOOLEAN}
  /\ probe = probe0
  /\ last = idle
  /\ prev = idle

AttachNext ==
  \/ probe_acpi_init
  \/ probe_power_management
  \/ probe_profile_init
  \/ probe_battery_threshold_init
  \/ probe_device_attrs_init
  \/ probe_kbd_backlight_init
  \/ probe_fan_speed_init
  \/ probe_i8042_filter
  \/ probe_acpi_notify

SpecAttach == AttachInit /\ [][AttachNext]_vars

\* the attributes of the platform device
DeviceAttrs == {"start_on_lid_open", "usb_charge", "allow_recording"}

\* the feature is there for its users
usable(feature) ==
  CASE feature = "profile" -> gb.performance_mode /\ gb.profile_registered
    [] feature = "battery_threshold" -> gb.battery_threshold /\ gb.battery_hook
    [] feature = "kbd_backlight" -> gb.kbd_backlight /\ gb.led
    [] feature = "fan_speed" -> gb.fan_speed
    [] feature = "hwmon" -> gb.hwmon
    [] feature = "i8042_filter" -> gb.i8042_filter /\ gb.i8042_filter_installed
    [] feature = "acpi_notify_handler" -> gb.acpi_notify_handler
    [] feature = "acpi_notify" -> gb.performance_mode_hotkey_work = "idle"
    [] feature = "input" -> gb.input
    [] feature \in DeviceAttrs ->
         \/ "device_attrs" \in probe.failed
         \/ (feature \in attr_names(gb.attrs) /\ gb.attrs_group)
    [] OTHER -> TRUE

\* the feature is switched off and nothing of it is registered
disabled(feature) ==
  CASE feature = "power_management" -> ~gb.performance_mode /\ ~gb.battery_threshold
    [] feature = "profile" -> ~gb.performance_mode /\ ~gb.profile_registered
    [] feature = "battery_threshold" -> ~gb.battery_threshold /\ ~gb.battery_hook
    [] feature = "kbd_backlight" -> ~gb.kbd_backlight /\ ~gb.led
    [] feature = "fan_speed" -> ~gb.fan_speed /\ ~gb.hwmon
    [] feature = "hwmon" -> ~gb.hwmon
    [] feature = "i8042_filter" -> ~gb.i8042_filter /\ ~gb.i8042_filter_installed
    [] feature = "acpi_notify_handler" -> ~gb.acpi_notify_handler
    [] feature = "acpi_notify" -> gb.performance_mode_hotkey_work = "zeroed" /\ ~gb.input
    [] feature = "input" -> ~gb.input
    [] feature = "device_attrs" -> ~gb.attrs_group
    [] feature = "allow_recording" ->
         ~gb.allow_recording /\ "allow_recording" \notin attr_names(gb.attrs)
    [] OTHER -> TRUE

\* C19: the probe fails only when galaxybook_acpi_init fails; when it has
\* returned 0, every feature whose initialisation failed is disabled and
\* every feature whose initialisation succeeded is usable (an attribute
\* whose value could be read is in the registered group unless adding the
\* group failed).
C19_AttachTolerant ==
  /\ probe.pc = "failed"
       => (last.op = "galaxybook_acpi_init" /\ last.err # 0)
  /\ probe.pc = "loaded"
       => /\ \A feature \in probe.failed : disabled(feature)
          /\ \A feature \in probe.succeeded : usable(feature)

(***************************************************************************)
(* Detach: galaxybook_remove against key presses and notifications         *)
(***************************************************************************)
\* galaxybook_remove: the attributes, the input device, and
\* cancel_work_sync of the performance-mode work item
remove_attrs_input ==
  /\ probe.pc = "loaded"
  /\ gb' = [gb EXCEPT !.attrs_group = FALSE, !.input = FALSE,
                      !.performance_mode_hotkey_work = cancel_work_sync(@)]
  /\ probe' = [probe EXCEPT !.pc = "remove_i8042_filter"]
  /\ last' = result("cancel_work_sync", "performance_mode_hotkey_work", 0, 0, <<>>)
  /\ UNCHANGED <<fw, prev>>

\* galaxybook_remove: the key filter and its two work items
remove_i8042_filter ==
  /\ probe.pc = "remove_i8042_filter"
  /\ gb' = IF gb.i8042_filter
           THEN [gb EXCEPT !.i8042_filter_installed = FALSE,
                           !.kbd_backlight_hotkey_work = cancel_work_sync(@),
                           !.allow_recording_hotkey_work = cancel_work_sync(@)]
           ELSE gb
  /\ probe' = [probe EXCEPT !.pc = "remove_notify_handler"]
  /\ last' = result("i8042_remove_filter", 0, 0, 0, <<>>)
  /\ UNCHANGED <<fw, prev>>

\* galaxybook_remove: acpi_remove_notify_handler
remove_notify_handler ==
  /\ probe.pc = "remove_notify_handler"
  /\ gb' = [gb EXCEPT !.acpi_notify_handler = FALSE]
  /\ probe' = [probe EXCEPT !.pc = "remove_features"]
  /\ last' = result("acpi_remove_notify_handler", 0, 0, 0, <<>>)
  /\ UNCHANGED <<fw, prev>>

\* galaxybook_remove from the fan attributes to kfree(galaxybook):
\* galaxybook_ptr is set to NULL, and the context is freed when pc is
\* "removed"
remove_features ==
  /\ probe.pc = "remove_features"
  /\ gb' = [gb EXCEPT !.hwmon = IF gb.fan_speed THEN FALSE ELSE @,
                      !.led = IF gb.kbd_backlight THEN FALSE ELSE @,
                      !.battery_hook = IF gb.battery_threshold THEN FALSE ELSE @,
                      !.profile_registered = IF gb.performance_mode THEN FALSE ELSE @]
  /\ probe' = [probe EXCEPT !.pc = "removed", !.galaxybook_ptr = "NULL"]
  /\ last' = result("kfree", 0, 0, 0, <<>>)
  /\ UNCHANGED <<fw, prev>>

\* the table of a device that lists the modes quiet, optimized and
\* performance
DetachTables ==
  {supported_performance_modes(list_frame(
     <<PERFORMANCE_MODE_QUIET, PERFORMANCE_MODE_OPTIMIZED, PERFORMANCE_MODE_PERFORMANCE>>))}

\* A driver that galaxybook_probe has loaded with every feature
\* initialised: the key filter and the notify handler are installed, the
\* notifications enabled, the three work items initialised.
DetachInit ==
  /\ fw = fw0
  /\ gb \in {[gb0 EXCEPT !.profile_performance_modes = m.modes,
                         !.choices = m.choices,
                         !.profile_registered = TRUE,
                         !.i8042_filter_installed = TRUE,
                         !.kbd_backlight_hotkey_work = "idle",
                         !.allow_recording_hotkey_work = "idle",
                         !.performance_mode_hotkey_work = "idle",
                         !.acpi_notify_handler = TRUE,
                         !.input = TRUE, !.led = TRUE, !.attrs_group = TRUE,
                         !.battery_hook = TRUE, !.hwmon = TRUE]
               : m \in DetachTables}
  /\ probe = [probe0 EXCEPT !.pc = "loaded", !.galaxybook_ptr = "galaxybook"]
  /\ last = idle
  /\ prev = idle

\* the context has not been freed
attached == probe.pc # "removed"

DetachNext ==
  \/ (last.op = "idle" /\ galaxybook_i8042_filter)
  \/ (last.op = "idle" /\ galaxybook_acpi_notify)
  \/ (last.op = "idle" /\ attached /\ galaxybook_kbd_backlight_hotkey_work)
  \/ (last.op = "idle" /\ attached /\ galaxybook_allow_recording_hotkey_work)
  \/ (last.op = "idle" /\ attached /\ galaxybook_performance_mode_hotkey_work)
  \/ (last.op = "idle" /\ remove_attrs_input)
  \/ (last.op = "idle" /\ remove_i8042_filter)
  \/ (last.op = "idle" /\ remove_notify_handler)
  \/ (last.op = "idle" /\ remove_features)
  \/ caller_return

SpecDetach == DetachInit /\ [][DetachNext]_vars

\* the hotkey work items that are queued
pending_work ==
  {w \in {"kbd_backlight_hotkey_work", "allow_recording_hotkey_work",
          "performance_mode_hotkey_work"} : gb[w] = "pending"}

\* C18: once galaxybook_remove has freed the context, no hotkey work item
\* is pending, in every interleaving of the remove with key presses,
\* notifications and runs of the work functions.
C18_NoWorkAfterFree ==
  probe.pc = "removed" => pending_work = {}

(***************************************************************************)
(* The revision without performance-mode read-back: the attribute          *)
(* performance_mode and the statics behind it                              *)
(***************************************************************************)
\* enum galaxybook_performance_mode of this revision: indexes, not bytes
MODE_INDEX_OPTIMIZED == 2
PERFORMANCE_MODE_HIGH_PERFORMANCE == 3

\* the byte sent to the device for each index
galaxybook_performance_mode_values ==
  [i \in 0..PERFORMANCE_MODE_HIGH_PERFORMANCE |->
     CASE i = 0 -> 11 [] i = 1 -> 10 [] i = 2 -> 2 [] i = 3 -> 21]

\* a text is the sequence of its characters
UpperCase == <<"A", "E", "G", "H", "I", "L", "N", "Q", "S", "T", "U">>
LowerCase == <<"a", "e", "g", "h", "i", "l", "n", "q", "s", "t", "u">>

tolower(c) ==
  IF \E k \in DOMAIN UpperCase : UpperCase[k] = c
  THEN LowerCase[CHOOSE k \in DOMAIN UpperCase : UpperCase[k] = c]
  ELSE c

\* strncasecmp(a, b, n) = 0, for a text a of n characters or more: the
\* first n characters agree without regard to case, and b does not end
\* before them
strncasecmp_equal(a, b, n) ==
  /\ n <= Len(b)
  /\ \A k \in 1..n : tolower(a[k]) = tolower(b[k])

performance_mode_conversion ==
  << [val |-> 0, str |-> <<"s", "i", "l", "e", "n", "t">>],
     [val |-> 1, str |-> <<"q", "u", "i", "e", "t">>],
     [val |-> 2, str |-> <<"o", "p", "t", "i", "m", "i", "z", "e", "d">>],
     [val |-> 3, str |-> <<"h", "i", "g", "h">>],
     [val |-> 3, str |-> <<"h", "i", "g", "h", " ", "p", "e", "r", "f", "o", "r", "m",
                           "a", "n", "c", "e">>],
     [val |-> 3, str |-> <<"h", "i", "g", "h", "p", "e", "r", "f", "o", "r", "m",
                           "a", "n", "c", "e">>] >>

\* the text without its trailing newline
chomp(str) ==
  IF Len(str) > 0 /\ str[Len(str)] = "\n" THEN SubSeq(str, 1, Len(str) - 1) ELSE str

\* performance_mode_from_str: the value of the first entry whose name
\* starts with the text (newline dropped), or -1
performance_mode_from_str(str) ==
  LET compare_size == Len(chomp(str))
      hits == {i \in DOMAIN performance_mode_conversion :
                 strncasecmp_equal(str, performance_mode_conversion[i].str, compare_size)}
  IN  IF hits = {} THEN -1
      ELSE performance_mode_conversion[CHOOSE i \in hits : \A j \in hits : i <= j].val

Digits == <<"0", "1", "2", "3", "4", "5", "6", "7", "8", "9">>

is_digit(c) == \E k \in DOMAIN Digits : Digits[k] = c

digit_value(c) == (CHOOSE k \in DOMAIN Digits : Digits[k] = c) - 1

\* the number a sequence of decimal digits denotes
RECURSIVE decimal(_)
decimal(ds) ==
  IF ds = <<>> THEN 0
  ELSE 10 * decimal(SubSeq(ds, 1, Len(ds) - 1)) + digit_value(ds[Len(ds)])

\* kstrtoint(buffer, 0, &value) on decimal texts: an optional sign, one
\* digit or more, an optional newline
kstrtoint(str) ==
  LET body == chomp(str)
      signed == Len(body) > 0 /\ body[1] \in {"-", "+"}
      ds == IF signed THEN SubSeq(body, 2, Len(body)) ELSE body
  IN  IF ds = <<>> \/ \E k \in DOMAIN ds : ~is_digit(ds[k])
      THEN [err |-> -EINVAL, value |-> 0]
      ELSE [err |-> 0, value |-> IF signed /\ body[1] = "-" THEN -decimal(ds)
                                 ELSE decimal(ds)]

\* the texts written to performance_mode
ModeTexts ==
  { <<"s", "i", "l", "e", "n", "t">>,
    <<"Q", "u", "i", "e", "t", "\n">>,
    <<"o", "p", "t", "i", "m", "i", "z", "e", "d">>,
    <<"H", "I", "G", "H">>,
    <<"h", "i", "g", "h", " ", "p", "e", "r", "f", "o", "r", "m", "a", "n", "c", "e">>,
    <<"h", "i">>,
    <<"\n">>,
    <<"1">>, <<"3", "\n">>, <<"4">>, <<"-", "1">>, <<"x">> }

\* the status acpi_evaluate_object returns: the method ran, the method
\* does not exist, the method failed
EvaluateStatuses == {AE_OK, AE_NOT_FOUND, AE_ERROR}

\* ACPI_FAILURE(status) && status != AE_NOT_FOUND
evaluate_failed(status) == status # AE_OK /\ status # AE_NOT_FOUND

\* the device takes the mode byte when the method ran
mode_after(f, status, byte) == IF status = AE_OK THEN [f EXCEPT !.mode = byte] ELSE f

\* the tracked state of the performance mode
tracked(g) ==
  IF g.performance_mode_was_set THEN <<"Known", g.performance_mode_value>>
  ELSE <<"Unknown">>

\* performance_mode_store: the number of characters written, or the error.
\* arg holds the text and the tracked state before, val the value parsed,
\* txs the status of the firmware call.
performance_mode_store ==
  /\ probe.pc = "acpi_added"
  /\ probe' = [probe EXCEPT !.store_requested = TRUE]
  /\ \E buffer \in ModeTexts :
       LET named == performance_mode_from_str(buffer)
           parsed == kstrtoint(buffer)
           value == IF named < 0 THEN parsed.value ELSE named
           returns(err, v, g, f, txs) ==
             /\ gb' = g
             /\ fw' = f
             /\ last' = result("performance_mode_store",
                               [buffer |-> buffer, before |-> tracked(gb)], err, v, txs)
       IN  IF named < 0 /\ parsed.err < 0
           THEN returns(-EINVAL, named, gb, fw, <<>>)
           ELSE IF value < 0 \/ value > PERFORMANCE_MODE_HIGH_PERFORMANCE
           THEN returns(-ERANGE, value, gb, fw, <<>>)
           ELSE \E status \in EvaluateStatuses :
                  IF evaluate_failed(status)
                  THEN returns(-ENXIO, value, gb, fw, <<status>>)
                  ELSE returns(Len(buffer), value,
                               [gb EXCEPT !.performance_mode_value = value,
                                          !.performance_mode_was_set = TRUE],
                               mode_after(fw, status,
                                          galaxybook_performance_mode_values[value]),
                               <<status>>)
  /\ UNCHANGED prev

\* sysfs_emit "%u\n" of a mode index, without the newline
mode_text(value) == Digits[value + 1]

\* performance_mode_show: val is the text, without the newline
performance_mode_show ==
  /\ probe.pc = "acpi_added"
  /\ last' = result("performance_mode_show", 0, 0,
                    IF gb.performance_mode_was_set
                    THEN mode_text(gb.performance_mode_value)
                    ELSE "unknown", <<>>)
  /\ UNCHANGED <<fw, gb, probe, prev>>

\* galaxybook_acpi_init of this revision: four enable calls on the settings
\* method, two on the performance-mode method, then the set of
\* 'optimized'.  The statics are written around the last call:
\* performance_mode before it, performance_mode_was_set after it.
legacy_acpi_init(g, f) ==
  { LET first_failure == {k \in 1..6 : evaluate_failed(statuses[k])}
        g1 == [g EXCEPT !.performance_mode_value = MODE_INDEX_OPTIMIZED]
    IN  IF first_failure # {}
        THEN [err |-> -ENXIO, gb |-> g, fw |-> f]
        ELSE IF evaluate_failed(statuses[7])
        THEN [err |-> -ENXIO, gb |-> g1, fw |-> f]
        ELSE [err |-> 0, gb |-> [g1 EXCEPT !.performance_mode_was_set = TRUE],
              fw |-> mode_after(f, statuses[7],
                                galaxybook_performance_mode_values[MODE_INDEX_OPTIMIZED])]
    : statuses \in [1..7 -> EvaluateStatuses] }

\* galaxybook_acpi_exit: the init once more, its result dropped
legacy_acpi_exit(g, f) == legacy_acpi_init(g, f)

\* galaxybook_acpi_add of this revision: the init, the platform device,
\* the keyboard backlight; a failure unwinds what was set up
galaxybook_acpi_add ==
  /\ probe.pc = "start"
  /\ \E i \in legacy_acpi_init(gb, fw) :
       IF i.err # 0
       THEN /\ gb' = i.gb
            /\ fw' = i.fw
            /\ probe' = probe
            /\ last' = result("galaxybook_acpi_add", 0, i.err, 0, <<>>)
       ELSE \E err \in {0, -ENOMEM} :
              IF err # 0
              THEN \E x \in legacy_acpi_exit(i.gb, i.fw) :
                     /\ gb' = x.gb
                     /\ fw' = x.fw
                     /\ probe' = probe
                     /\ last' = result("galaxybook_acpi_add", 0, err, 0, <<>>)
              ELSE /\ gb' = i.gb
                   /\ fw' = i.fw
                   /\ probe' = [probe EXCEPT !.pc = "acpi_added", !.store_requested = FALSE]
                   /\ last' = result("galaxybook_acpi_add", 0, 0, 0, <<>>)
  /\ UNCHANGED prev

\* galaxybook_acpi_remove of this revision
galaxybook_acpi_remove ==
  /\ probe.pc = "acpi_added"
  /\ \E x \in legacy_acpi_exit(gb, fw) :
       /\ gb' = x.gb
       /\ fw' = x.fw
  /\ probe' = [probe EXCEPT !.pc = "start"]
  /\ last' = result("galaxybook_acpi_remove", 0, 0, 0, <<>>)
  /\ UNCHANGED prev

\* the module is loaded, its statics zeroed, the device not yet added
LegacyInit ==
  /\ fw \in {[fw0 EXCEPT !.mode = m] : m \in UninitBytes}
  /\ gb = gb0
  /\ probe = probe0
  /\ last = idle
  /\ prev = idle

LegacyNext ==
  \/ galaxybook_acpi_add
  \/ galaxybook_acpi_remove
  \/ performance_mode_store
  \/ performance_mode_show

SpecLegacy == LegacyInit /\ [][LegacyNext]_vars

\* C21: a read of performance_mode before any store has been requested
\* since the device was added (the first time or again) returns "unknown".
C21_UnknownBeforeSet ==
  (last.op = "performance_mode_show" /\ ~probe.store_requested)
    => last.val = "unknown"

\* C22: while the device stays added the tracked state changes only in a
\* performance_mode_store whose firmware call returned AE_OK, and then to
\* Known of the value stored; a store that is rejected or whose call fails,
\* AE_NOT_FOUND included, leaves it as it was; it never becomes Unknown.
C22_TrackedOnlyBySuccessfulSet ==
  [][(probe.pc = "acpi_added" /\ probe'.pc = "acpi_added")
       => /\ tracked(gb') # tracked(gb)
               => /\ last'.op = "performance_mode_store"
                  /\ last'.err > 0
                  /\ last'.txs = <<AE_OK>>
                  /\ tracked(gb') = <<"Known", last'.val>>
          /\ (last'.op = "performance_mode_store" /\ last'.txs # <<AE_OK>>)
               => tracked(gb') = last'.arg.before
          /\ tracked(gb') # <<"Unknown">> \/ tracked(gb) = <<"Unknown">>]_vars

(***************************************************************************)
(* The default profile at attach                                           *)
(***************************************************************************)
\* C23: whenever galaxybook_profile_init has returned 0, it has sent a set
\* request carrying the mode of the balanced profile, whatever mode the
\* device reported as current.
C23_AttachSetsOptimized ==
  (last.op = "profile_init_current" /\ last.err = 0)
    => \E t \in Transactions :
         /\ IsModeSet(t)
         /\ t.req.iob[0] = gb.profile_performance_modes[DEFAULT_PLATFORM_PROFILE]

(***************************************************************************)
(* The settings attributes at attach                                       *)
(***************************************************************************)
\* C24: after a probe that returned 0, start_on_lid_open (and likewise
\* usb_charge) is an attribute of the platform device whenever its read in
\* galaxybook_device_attrs_init succeeded, whatever the outcome of the other
\* initialisations, the allow_recording handshake and read among them.  The
\* failure of device_add_group itself is left aside.
C24_SettingsAttrsIndependent ==
  \A a \in {"start_on_lid_open", "usb_charge"} :
    (/\ probe.pc = "loaded"
     /\ a \in probe.succeeded
     /\ "device_attrs" \notin probe.failed)
    => (a \in attr_names(gb.attrs) /\ gb.attrs_group)

(***************************************************************************)
(* The order of the teardown                                               *)
(***************************************************************************)
\* the subsystems galaxybook_probe registers, in the order it does so
AttachOrder ==
  <<"profile", "battery_threshold", "device_attrs", "kbd_backlight", "hwmon",
    "i8042_filter", "acpi_notify_handler", "input">>

\* the subsystem is registered
up(subsystem) ==
  CASE subsystem = "profile" -> gb.profile_registered
    [] subsystem = "battery_threshold" -> gb.battery_hook
    [] subsystem = "device_attrs" -> gb.attrs_group
    [] subsystem = "kbd_backlight" -> gb.led
    [] subsystem = "hwmon" -> gb.hwmon
    [] subsystem = "i8042_filter" -> gb.i8042_filter_installed
    [] subsystem = "acpi_notify_handler" -> gb.acpi_notify_handler
    [] subsystem = "input" -> gb.input

\* C25: galaxybook_remove tears the subsystems down in the reverse of the
\* order of galaxybook_probe: at every point of the remove, a subsystem that
\* is still registered has every subsystem registered before it still
\* registered.
C25_ReverseTeardown ==
  \A i, j \in DOMAIN AttachOrder :
    (i < j /\ up(AttachOrder[j])) => up(AttachOrder[i])

(***************************************************************************)
(* The signature of the enable handshake                                   *)
(***************************************************************************)
\* C26: the enable handshake returns 0 only for a response with gunm = 0xdd
\* and guds[0] = 0xcc; for every other response it fails, and the probe
\* switches the features that depend on it off.
C26_HandshakeNeedsSignature ==
  last.op = "galaxybook_enable_acpi_feature"
    => /\ last.err = 0
            => \A t \in Transactions :
                 /\ t.err = 0
                 /\ t.ret.gunm = GUNM_FEATURE_ENABLE_SUCCESS
                 /\ t.ret.guds[1] = GUDS_FEATURE_ENABLE_SUCCESS
       /\ last.err # 0 => (~gb.performance_mode /\ ~gb.battery_threshold)

(***************************************************************************)
(* Legacy mode values in the mapping                                       *)
(***************************************************************************)
\* the values of the list the device returned
listed_modes ==
  {reported_modes(last.txs[1])[i] : i \in DOMAIN reported_modes(last.txs[1])}

\* C27: for every list the device returns, in any order, after the mapping
\* the performance slot holds the legacy value 0x01 only if the list has
\* neither 0x15 nor 0x16, and the balanced slot holds the legacy value 0x00
\* only if the list has no 0x02.
C27_LegacyOnlyWithoutBetter ==
  (ListAccepted /\ last.err = 0)
  => /\ gb.profile_performance_modes[PLATFORM_PROFILE_PERFORMANCE]
          = PERFORMANCE_MODE_PERFORMANCE_LEGACY
        => (/\ PERFORMANCE_MODE_PERFORMANCE \notin listed_modes
            /\ PERFORMANCE_MODE_ULTRA \notin listed_modes)
     /\ gb.profile_performance_modes[PLATFORM_PROFILE_BALANCED]
          = PERFORMANCE_MODE_OPTIMIZED_LEGACY
        => PERFORMANCE_MODE_OPTIMIZED \notin listed_modes

(***************************************************************************)
(* The prefix state of the key filter                                      *)
(***************************************************************************)
\* the filter has just been called with a byte from the auxiliary port
AuxStep ==
  /\ last.op = "idle"
  /\ last'.op = "galaxybook_i8042_filter"
  /\ last'.arg.str = I8042_STR_AUXDATA

KeyupCodes == {GB_KEY_KBD_BACKLIGHT_KEYUP, GB_KEY_ALLOW_RECORDING_KEYUP}

\* the feature of the keyup code is on
keyup_enabled(data) ==
  \/ data = GB_KEY_KBD_BACKLIGHT_KEYUP /\ gb.kbd_backlight
  \/ data = GB_KEY_ALLOW_RECORDING_KEYUP /\ gb.allow_recording

\* C28 as stated: a byte from the keyboard port makes the filter schedule
\* work exactly when it is a keyup code (0xac or 0x9f) and the keyboard-port
\* byte before it was 0xe0; every byte other than 0xe0 clears the prefix
\* state; a byte from the auxiliary port schedules nothing and leaves the
\* prefix state as it was.
C28_ScheduleIffPrefixed ==
  [][/\ FilterStep
          => /\ last'.val > 0
                  <=> (last'.arg.data \in KeyupCodes /\ fw.i8042 = I8042_PREFIX_EXTENDED)
             /\ gb'.extended <=> last'.arg.data = I8042_PREFIX_EXTENDED
     /\ AuxStep => (last'.val = 0 /\ gb' = gb /\ fw' = fw)]_vars

\* C28, amended: the same, with the schedule made exactly when the byte is
\* the keyup code of a feature that is on and the keyboard-port byte before
\* it was 0xe0.
C28_ScheduleIffPrefixedAndEnabled ==
  [][/\ FilterStep
          => /\ last'.val > 0
                  <=> (keyup_enabled(last'.arg.data) /\ fw.i8042 = I8042_PREFIX_EXTENDED)
             /\ gb'.extended <=> last'.arg.data = I8042_PREFIX_EXTENDED
     /\ AuxStep => (last'.val = 0 /\ gb' = gb /\ fw' = fw)]_vars

\* the allow-recording keyup code has followed the prefix: one schedule_work
\* call was made, the prefix state is cleared and the work item is pending
C28_Witness ==
  /\ last.op = "galaxybook_i8042_filter"
  /\ last.arg = [data |-> GB_KEY_ALLOW_RECORDING_KEYUP, str |-> 0]
  /\ last.val = 1
  /\ ~gb.extended
  /\ gb.allow_recording_hotkey_work = "pending"

(***************************************************************************)
(* The classification of a fan                                             *)
(***************************************************************************)
\* the slot galaxybook_add_fan has filled in its last call: the fan it
\* added, or the slot it wrote and left unregistered
LastSlot == gb.fans[gb.fans_count - last.val]

\* _FST of the device of the last call evaluates and reports a speed above 0
LastFstWorks ==
  /\ fan_speed_get_fst(last.arg.device).err = 0
  /\ fan_speed_get_fst(last.arg.device).speed > 0

\* C29: a fan device that is not skipped is taken as standard (supports_fst)
\* only if _FST evaluates and reports a speed greater than 0; otherwise,
\* when the device has FANT and the FANS field exists, it is taken as
\* table-derived.
C29_StandardOnlyIfFstWorks ==
  (last.op = "galaxybook_add_fan" /\ ~acpi4_fan_device(last.arg.device))
  => /\ LastSlot.supports_fst => LastFstWorks
     /\ (/\ ~LastFstWorks
         /\ acpi_has_method(last.arg.device, ACPI_FAN_SPEED_LIST)
         /\ last.arg.fans_exists)
        => ~LastSlot.supports_fst

(***************************************************************************)
(* A fan device without _FST and without FANT                              *)
(***************************************************************************)
\* the channels of the hwmon device that are visible: one for each
\* registered fan
hwmon_fan_channels(g) == 0..(g.fans_count - 1)

\* the device has no FANT table: the method is absent, fails, or gives
\* something other than a package with elements
no_fan_table(d) ==
  \/ d.fant.status # AE_OK
  \/ d.fant.obj.type # "package"
  \/ Len(d.fant.obj.elements) = 0

C31_MirrorWrittenBySetOnly ==
  [][gb'.brightness # gb.brightness
       => (last'.op = "kbd_backlight_store" /\ last'.err = 0)]_vars

(***************************************************************************)
(* The caller's frame after a failed transaction                           *)
(***************************************************************************)
\* C32: a transaction that returns an error, for whatever reason, leaves
\* the caller's frame as it was sent; the response is copied into it only
\* when the transaction returns 0.
C32_FailureLeavesFrame ==
  \A t \in Transactions :
    /\ t.err # 0 => t.ret = t.req
    /\ t.ret # t.req => t.err = 0

(***************************************************************************)
(* The entries read during the discovery of the modes                      *)
(***************************************************************************)
\* the offset in struct sawb of iob_values[i]
iob_values_offset(i) == 23 + i

\* C33: whatever count byte the device returns, every entry the mapping
\* loop reads is one of iob1..iob9 of the response frame: the highest
\* index read is at most 9, and no read is at or past the end of the frame.
C33_ReadsInsideFrame ==
  (ListAccepted /\ last.err # -ENOMEM)
    => /\ last.val <= 9
       /\ iob_values_offset(last.val) < SAWB_LEN_PERFORMANCE_MODE


(***************************************************************************)
(* The level read from FANS and the table of speeds                        *)
(***************************************************************************)
\* C34: a read of the speed of a fan that uses the table returns 0 only
\* when the level read from FANS is at least 0 and below the length of the
\* table; a level at or above the length gives an error and no access to
\* the table.
C34_LevelBelowTableLength ==
  (/\ last.op = "fan_speed_rpm_show"
   /\ ~gb.fans[last.arg.fan].supports_fst
   /\ last.err = 0)
    => /\ 0 <= last.arg.level
       /\ last.arg.level < gb.fans[last.arg.fan].fan_speeds_count
       /\ last.arg.level \in DOMAIN gb.fans[last.arg.fan].fan_speeds


(***************************************************************************)
(* Attach against key presses and notifications                            *)
(***************************************************************************)
\* galaxybook_probe step by step, with the key filter and the notify
\* handler called at any moment from the one at which each is installed
AttachEventsNext ==
  \/ AttachNext
  \/ galaxybook_i8042_filter
  \/ galaxybook_acpi_notify

\* the attach of a driver loaded with the fan speed and the battery
\* threshold switched off by their module parameters
AttachEventsInit ==
  /\ fw = fw0
  /\ gb \in {[gb0 EXCEPT !.performance_mode = p, !.battery_threshold = FALSE,
                         !.kbd_backlight = k, !.allow_recording = a,
                         !.fan_speed = FALSE, !.i8042_filter = i]
               : p \in BOOLEAN, k \in BOOLEAN, a \in BOOLEAN, i \in BOOLEAN}
  /\ probe = probe0
  /\ last = idle
  /\ prev = idle

SpecAttachEvents == AttachEventsInit /\ [][AttachEventsNext]_vars

\* the three hotkey work items of struct samsung_galaxybook
HotkeyWorks ==
  {"kbd_backlight_hotkey_work", "allow_recording_hotkey_work",
   "performance_mode_hotkey_work"}

\* C35: in every interleaving of the attach with key presses and
\* notifications, schedule_work is called only on a work item that
\* INIT_WORK has set up: no work item is queued uninitialised, also when
\* enabling the notifications failed after the handler was installed.
C35_ScheduledOnlyInitialised ==
  \A w \in HotkeyWorks : gb[w] # "corrupt"


(***************************************************************************)
(* The static pointer to the device context                                *)
(***************************************************************************)
\* kfree(galaxybook) has run: at err_free of galaxybook_probe, or at the
\* end of galaxybook_remove
context_freed == probe.pc \in {"failed", "removed"}

\* C36: in every state galaxybook_ptr is NULL or points to a context that
\* has not been freed, also after an attach that failed in
\* galaxybook_acpi_init and after the detach.
C36_PointerNullOrLive ==
  probe.galaxybook_ptr = "NULL" \/ ~context_freed


(***************************************************************************)
(* The platform-profile handler after a failed initialisation              *)
(***************************************************************************)
\* the steps of galaxybook_profile_init
ProfileInitSteps == {"profile_init_list", "profile_init_register", "profile_init_current"}

\* C37: when galaxybook_profile_init has returned an error the
\* platform-profile handler is not registered; galaxybook_probe then
\* switches performance_mode off, and galaxybook_remove calls
\* galaxybook_profile_exit only when performance_mode is on.
C37_FailedInitNotRegistered ==
  (last.op \in ProfileInitSteps /\ last.err # 0) => ~gb.profile_registered


(***************************************************************************)
(* A brightness set and the brightness hotkey work at the same time        *)
(***************************************************************************)
\* kbd_backlight_acpi_set up to the return of galaxybook_acpi_method, for
\* the thread t ("store" or "work") with the level brightness: neither the
\* executor nor the function takes a lock
kbd_backlight_acpi_set_call(t, brightness) ==
  \E o \in transact(ACPI_METHOD_SETTINGS,
                    settings_request(SASB_KBD_BACKLIGHT, GUNM_SET,
                                     <<brightness % 256, 0, 0>>),
                    SAWB_LEN_SETTINGS, fw) :
    /\ fw' = o.fw
    /\ probe' = [probe EXCEPT ![t] = [pc |-> IF o.err = 0 THEN "accepted" ELSE "done",
                                      brightness |-> brightness, err |-> o.err],
                              !.accepted = IF o.err = 0 THEN brightness ELSE @]
    /\ last' = result("galaxybook_acpi_method", brightness, o.err, 0, <<o.tx>>)
    /\ UNCHANGED <<gb, prev>>

\* kbd_backlight_acpi_set after a transaction that returned 0: the level
\* is written to kbd_backlight.brightness
kbd_backlight_acpi_set_return(t) ==
  /\ gb' = [gb EXCEPT !.brightness = probe[t].brightness]
  /\ probe' = [probe EXCEPT ![t].pc = "done"]
  /\ last' = result("kbd_backlight_acpi_set", probe[t].brightness, 0, 0, <<>>)
  /\ UNCHANGED <<fw, prev>>

\* kbd_backlight_store calls kbd_backlight_acpi_set with the user's level
kbd_backlight_store_call ==
  /\ probe.store.pc = "none"
  /\ \E brightness \in 0..KBD_BACKLIGHT_MAX_BRIGHTNESS :
       kbd_backlight_acpi_set_call("store", brightness)

\* kbd_backlight_store returns 0 after the write of the level
kbd_backlight_store_return ==
  /\ probe.store.pc = "accepted"
  /\ kbd_backlight_acpi_set_return("store")

\* the work function is taken off the queue and reads
\* kbd_backlight.brightness to choose the next level
kbd_backlight_hotkey_work_read ==
  /\ gb.kbd_backlight_hotkey_work = "pending"
  /\ probe.work.pc = "none"
  /\ gb' = [gb EXCEPT !.kbd_backlight_hotkey_work = "idle"]
  /\ probe' = [probe EXCEPT !.work = [pc |-> "read",
                                      brightness |-> kbd_backlight_hotkey_level(gb),
                                      err |-> 0]]
  /\ last' = result("galaxybook_kbd_backlight_hotkey_work", gb.brightness, 0,
                    kbd_backlight_hotkey_level(gb), <<>>)
  /\ UNCHANGED <<fw, prev>>

\* the work function calls kbd_backlight_acpi_set with the level chosen
kbd_backlight_hotkey_work_call ==
  /\ probe.work.pc = "read"
  /\ kbd_backlight_acpi_set_call("work", probe.work.brightness)

\* the work function goes on to notify the LED core after the write of
\* the level
kbd_backlight_hotkey_work_return ==
  /\ probe.work.pc = "accepted"
  /\ kbd_backlight_acpi_set_return("work")

\* A loaded driver whose LED holds the level of the device; the brightness
\* key has been released and its work item is queued.
RaceInit ==
  /\ fw \in {[fw0 EXCEPT !.kbd = b] : b \in 0..KBD_BACKLIGHT_MAX_BRIGHTNESS}
  /\ gb = [gb0 EXCEPT !.brightness = fw.kbd, !.led = TRUE,
                      !.i8042_filter_installed = TRUE,
                      !.kbd_backlight_hotkey_work = "pending",
                      !.allow_recording_hotkey_work = "idle"]
  /\ probe = [probe0 EXCEPT !.pc = "loaded", !.galaxybook_ptr = "galaxybook"]
  /\ last = idle
  /\ prev = idle

RaceNext ==
  \/ kbd_backlight_store_call
  \/ kbd_backlight_store_return
  \/ kbd_backlight_hotkey_work_read
  \/ kbd_backlight_hotkey_work_call
  \/ kbd_backlight_hotkey_work_return

SpecRace == RaceInit /\ [][RaceNext]_vars

\* the user's set and the work function have both finished
BothFinished == probe.store.pc = "done" /\ probe.work.pc = "done"

\* C38: when a user's brightness set and the brightness hotkey work run at
\* the same time, then once both have finished kbd_backlight.brightness is
\* the level of the set request the device accepted last.
C38_MirrorIsLastAccepted ==
  (BothFinished /\ probe.accepted # -1) => gb.brightness = probe.accepted


(***************************************************************************)
(* The allow-recording hotkey: the value read and the value written        *)
(***************************************************************************)
\* C39: the work function of the allow-recording hotkey writes to the
\* device the negation of the value it has just read from it; when the
\* read fails it sends no write.
C39_WritesNegationOfRead ==
  last.op = "galaxybook_allow_recording_hotkey_work"
    => /\ last.txs[1].err # 0 => Len(last.txs) = 1
       /\ last.txs[1].err = 0
            => /\ Len(last.txs) = 2
               /\ last.txs[2].req.gunm = GUNM_SET
               /\ last.txs[2].req.guds[1] = 1 - to_bool(last.txs[1].ret.gunm)


(***************************************************************************)
(* The choices advertised and the table of modes                           *)
(***************************************************************************)
\* the mapping loop has succeeded: the table is about to be registered,
\* or the handler is registered
Negotiated == probe.pc = "profile_register" \/ gb.profile_registered

\* C40: from the end of the mapping loop on, the choices of the
\* platform-profile handler are the slots of profile_performance_modes
\* that hold a value other than 0xff, and this stays so for the rest of
\* the attach: no step after the loop (the registration, the set of the
\* default profile, a later get or set) changes the table or the choices.
C40_ChoicesAreMappedSlots ==
  [][/\ Negotiated' => gb'.choices = mapped_profiles(gb'.profile_performance_modes)
     /\ Negotiated => /\ gb'.profile_performance_modes = gb.profile_performance_modes
                      /\ gb'.choices = gb.choices]_vars

\* a registered handler with two or more choices and an unmapped slot has
\* served a set after the attach
C40_Witness ==
  /\ probe.pc = "loaded"
  /\ gb.profile_registered
  /\ last.op = "platform_profile_set"
  /\ Cardinality(gb.choices) >= 2
  /\ \E p \in Profiles : gb.profile_performance_modes[p] = PERFORMANCE_MODE_UNKNOWN

=============================================================================
